SPECIFICATION FairSpec
CONSTANTS
    Places = {start, finish, report}
    Scopes = {launch, main}
    Starter = launch
    MaxShow = 2
INVARIANTS TypeOK LoadingIsReal OneAdPerPlace
PROPERTY AdsReturn
\* Nobody may ask for an ad any more.
CHECK_DEADLOCK FALSE
