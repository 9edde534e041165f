------------------------ MODULE MCSecretResolution ------------------------
(* Environments and Vaults small enough for TLC.                           *)
EXTENDS SecretResolution

CONSTANT NoSecret  \* the value of Missing, a model value

Read(p, k)     == [path |-> p, key |-> k, update |-> FALSE]
Write(p, k)    == [path |-> p, key |-> k, update |-> TRUE]
Plain          == [kind |-> "plain", parts |-> <<>>]
Login          == [kind |-> "login", parts |-> <<>>]
Token          == [kind |-> "token", parts |-> <<>>]
Ref(part)      == [kind |-> "ref", parts |-> <<part>>]
Inline(parts)  == [kind |-> "inline", parts |-> parts]

\* A pair of credentials of one path, one of its keys in an inline reference,
\* two references to one issued certificate, a name that the imported paths
\* provide as well, and a token file's token.
AppTemplate ==
  [USER        |-> Ref(Read("db", "user")),
   DSN         |-> Inline(<<Read("db", "user"), Read("db", "pass")>>),
   CERT        |-> Ref(Write("pki", "cert")),
   CKEY        |-> Inline(<<Write("pki", "key")>>),
   HOST        |-> Ref(Read("a", "h")),
   VAULT_TOKEN |-> Token]

Creds(u, p) == [user |-> u, pass |-> p]

AppContents ==
  [db  |-> {Creds("u1", "p1"), Creds("u2", "p2")},
   a   |-> {[h |-> "h1"], [h |-> "h2", HOST |-> "h3"], <<>>, NoSecret},
   b   |-> {[HOST |-> "h4", PORT |-> "p1"], [PORT |-> "p2"], NoSecret},
   pki |-> {NoSecret}]

AppReply ==
  [db |-> NoSecret, a |-> NoSecret, b |-> NoSecret, pki |-> [cert |-> "c", key |-> "k"]]

AppPaths == <<"a", "b">>

\* An update-style reference of a name that a path provides as well.
ClashTemplate == [CERT |-> Ref(Write("pki", "cert"))]
ClashContents == [pki |-> {NoSecret}, app |-> {[CERT |-> "old"], [CERT |-> "new"]}]
ClashReply    == [pki |-> [cert |-> "c"], app |-> NoSecret]

\* An inline reference and a plain one to a path that may be empty.
GapTemplate == [URL |-> Inline(<<Read("a", "h"), Read("b", "p")>>), HOST |-> Ref(Read("a", "h"))]
GapContents == [a |-> {[h |-> "h1"], [h |-> "h2"], NoSecret}, b |-> {[p |-> "p1"], NoSecret}]
GapReply    == [a |-> NoSecret, b |-> NoSecret]

\* The application asks for the token of the login.
LoginTemplate == [VAULT_TOKEN |-> Login, VAULT_ROLE |-> Plain, HOST |-> Ref(Read("a", "h"))]
LoginContents == [a |-> {[h |-> "h1"], [h |-> "h2"]}]
LoginReply    == [a |-> NoSecret]

NoFrom    == <<>>
AppFrom   == <<"app">>
OneToken  == <<"t1">>
TwoTokens == <<"t1", "t2">>
=============================================================================
