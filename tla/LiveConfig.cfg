SPECIFICATION Spec
CONSTANTS
    Models <- MCModels
    Names <- MCNames
    Resources <- MCResources
    Contents <- MCContents
    Catalog <- MCCatalog
    Deployments <- MCDeployments
    Callbacks = {c1, c2}
INVARIANTS
    RoutesAreServed
SYMMETRY Interchangeable
PROPERTIES
    StartupFieldsKept
    RefusedOnlyForRestart
\* A process that fails to start exits.
CHECK_DEADLOCK FALSE
