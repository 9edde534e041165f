SPECIFICATION Spec
CONSTANTS
  NoSecret = NoSecret
  Missing = NoSecret
  Template <- GapTemplate
  Contents <- GapContents
  WriteReply <- GapReply
  EnvFrom <- NoFrom
  IgnoreMissing = TRUE
  VaultVars = {"VAULT_TOKEN", "VAULT_ADDR", "VAULT_ROLE"}
  LoginVars = {"VAULT_TOKEN", "VAULT_ADDR"}
  CanRelogin = TRUE
  Tokens <- OneToken
  MaxChanges = 1
INVARIANT NoTemplateLeaks
