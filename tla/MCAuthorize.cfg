CONSTANTS
    Null = Null
    Tabs = {t1}
    AuthorizeRequests <- Asked
    Details <- Forms
    FrontEnds = {"bundled"}
    Modes = {"always_required"}
    SessionAcrs = {"password"}
    MarkerTtl = 1
    MaxUpsets = 1
    MaxLogins = 1
    MaxApprovals = 1
SPECIFICATION AuthorizeSpec
PROPERTIES
    LoginReturns
CHECK_DEADLOCK FALSE
