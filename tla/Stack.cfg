CONSTANTS
  MB_FUNC_HANDLERS_MAX = 3
  MB_FUNC_OTHER_REP_SLAVEID_BUF = 4
  Codes = {1, 2, 3, 4}
  BadCodes = {0, 128}
  Handlers = {"h1", "h2", "h3", "h4"}
  None = "NULL"
  BuiltIn <- MCBuiltIn
  IdLengths <- MCIdLengths
  Removes = TRUE
  Overrides = FALSE
  Reinits = FALSE
SPECIFICATION Spec
INVARIANTS NeverAnother CalledUnlessHole
