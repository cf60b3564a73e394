SPECIFICATION Spec
CONSTANTS
    Models <- MCModels
    Names <- MCNames
    Resources <- MCResources
    Contents <- MCContents
    Catalog <- MCCatalog
    Deployments <- MCDeployments
    Callbacks = {c1}
INVARIANTS
    ServedConfigIsValid
\* A process that fails to start exits.
CHECK_DEADLOCK FALSE
