\* Two recordings, a contract that is generated and reviewed once, and tests of
\* every order of the recorded calls with and without a live one.
CONSTANTS
  NoFile = NoFile
  NoRun = NoRun
  Lowered <- MCLowered
  Uppered <- MCUppered
  Literals <- MCLiterals
  Emails <- MCEmails
  Detected <- MCDetected
  Words <- MCWords
  Mentions <- MCMentions
  NumberOf <- MCNumberOf
  CanonicalTiers <- MCTiers
  ServiceIgnored <- MCServiceIgnored
  Bundles <- MCBundles
  LiveCalls <- MCLiveCalls
  GateFiles <- MCGateFiles
  AssertionFiles <- MCAssertionFiles
  CustomRules <- MCRules
  ToolOverrides <- MCOverrides
  Approvable <- MCApprovable
  Session = "support"
  Policy = "v1"
  Salt = "salt"
  MaxChanges = 2
SPECIFICATION Spec
INVARIANTS TypeOK SecretsGone NewActionsAgree PassedMeansClean LoadedGatesJudge
