CONSTANTS
    Isolates = {i1, i2}
    None = None
    MaxGrants = 1
    MaxPairs = 2
    MaxDeploy = 2
    KeysKept = 2
    OAuthDeploys = {1}
    AuthTypes = {"oauth", "token"}

SPECIFICATION FairSpec
CONSTRAINT NoneKilled
CONSTRAINT OwnerOrDeploy
INVARIANT TypeOK
PROPERTY KeysMoveForward
PROPERTY CallEnds
