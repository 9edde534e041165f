SPECIFICATION Spec
CONSTANTS
  NoSecret = NoSecret
  Missing = NoSecret
  Template <- LoginTemplate
  Contents <- LoginContents
  WriteReply <- LoginReply
  EnvFrom <- NoFrom
  IgnoreMissing = FALSE
  VaultVars = {"VAULT_TOKEN", "VAULT_ADDR", "VAULT_ROLE"}
  LoginVars = {"VAULT_TOKEN", "VAULT_ADDR"}
  CanRelogin = TRUE
  Tokens <- TwoTokens
  MaxChanges = 1
INVARIANT LoginTokenPassed
