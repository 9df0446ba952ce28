CONSTANTS
    Isolates = {i1, i2}
    None = None
    MaxGrants = 2
    MaxPairs = 3
    MaxDeploy = 1
    KeysKept = 1
    OAuthDeploys = {1}
    AuthTypes = {"oauth"}

SPECIFICATION Spec
SYMMETRY IsolateSymmetry
CONSTRAINT FewFaults
INVARIANT Custody
INVARIANT AlertsBounded
PROPERTY ImplementsContract
