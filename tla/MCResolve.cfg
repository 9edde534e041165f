SPECIFICATION Spec
CONSTANTS
  NoSecret = NoSecret
  Missing = NoSecret
  Template <- AppTemplate
  Contents <- AppContents
  WriteReply <- AppReply
  EnvFrom <- AppPaths
  IgnoreMissing = TRUE
  VaultVars = {"VAULT_TOKEN", "VAULT_ADDR"}
  LoginVars = {"VAULT_TOKEN", "VAULT_ADDR"}
  CanRelogin = TRUE
  Tokens <- TwoTokens
  MaxChanges = 2
INVARIANTS TypeOK RestartMeansChange SameVersion WriteOnce NoTemplateLeaks
PROPERTIES PollVerdict EnvAsDocumented
