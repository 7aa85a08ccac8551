\* Nothing is assumed of the provider.
SPECIFICATION FairSpec
CONSTANTS
    Requests = {r1, r2}
    Free = Free
PROPERTY CatalogAvailable
