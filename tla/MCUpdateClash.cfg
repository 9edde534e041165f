SPECIFICATION Spec
CONSTANTS
  NoSecret = NoSecret
  Missing = NoSecret
  Template <- ClashTemplate
  Contents <- ClashContents
  WriteReply <- ClashReply
  EnvFrom <- AppFrom
  IgnoreMissing = FALSE
  VaultVars = {"VAULT_TOKEN", "VAULT_ADDR", "VAULT_ROLE"}
  LoginVars = {"VAULT_TOKEN", "VAULT_ADDR"}
  CanRelogin = TRUE
  Tokens <- OneToken
  MaxChanges = 1
INVARIANT RestartMeansChange
