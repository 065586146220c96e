SPECIFICATION Spec
CONSTANTS
  Label = {"scout", "codex"}
  Agent = {"codex"}
  Caller = {1, 2}
  MaxOpenings = 3
  MaxMail = 1
INVARIANTS NameLeadsToSession
PROPERTY MailForNobody
