\* A recording that holds an e-mail address is replayed as it stands.
CONSTANTS
  NoFile = NoFile
  NoRun = NoRun
  Lowered <- MCLowered
  Uppered <- MCUppered
  Literals <- MCLiterals
  Emails <- MCEmails
  Detected <- MCDetected
  Words <- MCWords
  Mentions <- MCMentions
  NumberOf <- MCNumberOf
  CanonicalTiers <- MCTiers
  ServiceIgnored <- MCServiceIgnored
  Bundles <- MCBundles
  LiveCalls <- MCLiveCalls
  GateFiles <- MCGateFiles
  AssertionFiles <- MCAssertionFiles
  CustomRules <- MCRules
  ToolOverrides <- MCOverrides
  Approvable <- MCApprovable
  Session = "support"
  Policy = "v1"
  Salt = "salt"
  MaxChanges = 2
SPECIFICATION Spec
INVARIANTS ExactReplayIsClean
