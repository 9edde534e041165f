-------------------------- MODULE SecretResolution --------------------------
(***************************************************************************)
(* How the env-injector turns the templates of its own environment into    *)
(* the environment of the application, and how it decides afterwards that  *)
(* a secret has changed: SecretInjector of injector.go, the snapshot, the  *)
(* baseline and the sanitizing of main.go, the hash of hash.go and the     *)
(* polls of watchSecretsForChanges.  The steps between which Vault can     *)
(* change are the requests: one per reference, one per VAULT_ENV_FROM_PATH *)
(* entry.  EnvInjector.tla has the signals and processes around this.      *)
(*                                                                         *)
(* A value is the sequence of its pieces: <<v>> for a plain reference, one *)
(* piece per ${...} for an inline one.  The parsing of a template is done: *)
(* a template is a record of its kind and of the parts it refers to.       *)
(***************************************************************************)
EXTENDS Naturals, Sequences

CONSTANTS
  Template,       \* name -> [kind, parts], the environment of the container
  EnvFrom,        \* the paths of VAULT_ENV_FROM_PATH, in their order
  Contents,       \* path -> the data Vault may hold there (or Missing)
  WriteReply,     \* path -> the data Vault returns for a write (or Missing)
  Missing,        \* no secret at a path: a nil *vaultapi.Secret
  IgnoreMissing,  \* VAULT_IGNORE_MISSING_SECRETS
  VaultVars,      \* sanitizeEnvmap less VAULT_ENV_PASSTHROUGH
  LoginVars,      \* the entries of it marked {login: true}
  CanRelogin,     \* the client has a token file or has logged in
  Tokens,         \* the tokens the client obtains, one after the other
  MaxChanges      \* bound on the changes made in Vault

Names == DOMAIN Template
Paths == DOMAIN Contents
None  == ""                      \* no environment variable is called so

Parts(n) == Template[n].parts
Key(part) == <<part.path, part.update>>

References == [path : Paths, key : STRING, update : BOOLEAN]

ASSUME TemplateAssumption ==
  \A n \in Names :
    /\ n # None
    /\ Template[n].kind \in {"plain", "ref", "inline", "token", "login"}
    /\ Parts(n) \in Seq(References)
    /\ (Template[n].kind = "ref") => (Len(Parts(n)) = 1)
    /\ (Template[n].kind = "inline") <=> (Len(Parts(n)) > 0 /\ Template[n].kind # "ref")

ASSUME VaultAssumption ==
  /\ EnvFrom \in Seq(Paths)
  /\ DOMAIN WriteReply = Paths
  /\ IgnoreMissing \in BOOLEAN
  /\ CanRelogin \in BOOLEAN
  /\ MaxChanges \in Nat
  /\ Tokens \in Seq(STRING)
  /\ Len(Tokens) > 0

VARIABLES
  phase,      \* where the process is: see Phases
  todo,       \* the names InjectSecretsFromVault still has to range over
  at,         \* the inline reference being resolved, or None
  pieces,     \* what its ${...} have been replaced with so far
  pos,        \* the next entry of EnvFrom
  cache,      \* i.secretCache of the injector in use
  out,        \* secretsSet
  given,      \* the environment the application was started with
  baseline,   \* what initialSecretsHash digests
  writes,     \* path -> writes made by this process
  vault,      \* path -> what Vault holds now
  token,      \* the index in Tokens of the client's token
  changes,    \* how often Vault has changed
  touched,    \* ghost: Vault or the token changed during this process
  moved       \* ghost: Vault or the token changed during this poll

injector == <<todo, at, pieces, pos, cache, out>>
child    == <<given, baseline>>
store    == <<vault, changes>>
vars     == <<phase, todo, at, pieces, pos, cache, out, given, baseline,
              writes, vault, token, changes, touched, moved>>

Phases == {"inject", "ready", "poll", "unwatched", "restart", "failed"}

-----------------------------------------------------------------------------
(* The configuration, as main() reads it.                                  *)

\* The container asks for the token of the login: VAULT_TOKEN=vault:login.
IsLogin == \E n \in Names : n = "VAULT_TOKEN" /\ Template[n].kind = "login"

\* sanitizedEnviron.append keeps the variable.  In a login VAULT_TOKEN itself
\* is added to the variables that are passed through.
Passes(n) ==
  \/ n \notin VaultVars
  \/ IsLogin /\ (n \in LoginVars \/ n = "VAULT_TOKEN")

\* isUpdateReference: resolving the template writes to Vault.
UpdateNames == {n \in Names : \E i \in DOMAIN Parts(n) : Parts(n)[i].update}

WatchedTemplates == Names \ UpdateNames

HasWatchedSecrets ==
  \/ EnvFrom # <<>>
  \/ \E n \in WatchedTemplates : Template[n].kind \in {"ref", "inline", "token"}

\* Maps of Go, as functions: a part of one, one laid over another, one entry set.
Only(f, S)   == [x \in DOMAIN f \cap S |-> f[x]]
Over(g, f)   == [x \in DOMAIN g \cup DOMAIN f |-> IF x \in DOMAIN g THEN g[x] ELSE f[x]]
Put(f, k, v) == [x \in {k} \cup DOMAIN f |-> IF x = k THEN v ELSE f[x]]

-----------------------------------------------------------------------------
(* Starting, and starting again once the container has ended.              *)

StartInjector(names) ==
  /\ todo' = names
  /\ at' = None
  /\ pieces' = <<>>
  /\ pos' = 1
  /\ out' = <<>>

Init ==
  /\ phase = "inject"
  /\ todo = Names
  /\ at = None
  /\ pieces = <<>>
  /\ pos = 1
  /\ cache = <<>>
  /\ out = <<>>
  /\ given = <<>>
  /\ baseline = <<>>
  /\ writes = [p \in Paths |-> 0]
  /\ vault \in {v \in [Paths -> UNION {Contents[p] : p \in Paths}] :
                  \A p \in Paths : v[p] \in Contents[p]}
  /\ token = 1
  /\ changes = 0
  /\ touched = FALSE
  /\ moved = FALSE

\* The kubelet starts the container again: a new process, the same Vault.
Restart ==
  /\ phase \in {"restart", "failed"}
  /\ phase' = "inject"
  /\ StartInjector(Names)
  /\ cache' = <<>>
  /\ given' = <<>>
  /\ baseline' = <<>>
  /\ writes' = [p \in Paths |-> 0]
  /\ touched' = FALSE
  /\ moved' = FALSE
  /\ UNCHANGED <<store, token>>

-----------------------------------------------------------------------------
(* InjectSecretsFromVault: the range over the references, in any order.    *)

Resolving == phase \in {"inject", "poll"}

\* The part of a reference that is due.
Due(n) == Parts(n)[Len(pieces) + 1]

\* The part is requested from Vault: its data are not in the cache.
Requested(part) == Key(part) \notin DOMAIN cache

GotUncached(part) ==                                       \* Faulty variant
  IF part.update THEN WriteReply[part.path] ELSE vault[part.path]

\* The data of a part: from the cache, from a write or from a read.
Got(part) ==
  IF ~Requested(part)  THEN cache[Key(part)]
  ELSE IF part.update  THEN WriteReply[part.path]
  ELSE vault[part.path]

CountWrite(part) ==
  writes' = IF part.update /\ Requested(part)
              THEN [writes EXCEPT ![part.path] = @ + 1]
              ELSE writes

\* Faulty variant: the pieces of a value are not dropped with it.
InjectKeepsPieces(n, value) ==
  /\ out' = Put(out, n, value)
  /\ todo' = todo \ {n}
  /\ at' = None
  /\ pieces' = value

\* The value of name n is complete: inject(name, value).
Inject(n, value) ==
  /\ out' = Put(out, n, value)
  /\ todo' = todo \ {n}
  /\ at' = None
  /\ pieces' = <<>>

\* One more piece of n is known: the next ${...}, or the value is complete.
AddPiece(n, piece) ==
  IF Len(pieces) + 1 = Len(Parts(n))
    THEN Inject(n, Append(pieces, piece))
    ELSE /\ at' = n
         /\ pieces' = Append(pieces, piece)
         /\ UNCHANGED <<todo, out>>

\* A template that needs no request to Vault.
ResolvePlain(n) ==
  /\ Resolving /\ at = None /\ n \in todo
  /\ Parts(n) = <<>>
  /\ Inject(n, CASE Template[n].kind = "plain" -> <<"text">>
                 [] Template[n].kind = "token" -> <<Tokens[token]>>
                 [] Template[n].kind = "login" -> <<"vault:login">>)
  /\ UNCHANGED <<phase, pos, cache, child, writes, store, token, touched, moved>>

\* The names a step may work on: an inline reference is finished first.
Current(n) == Resolving /\ n \in todo /\ at \in {None, n} /\ Parts(n) # <<>>

\* A part found in the cache or in Vault, with the key the template asks for.
ResolvePart(n) ==
  /\ Current(n)
  /\ LET part == Due(n)
         data == Got(part)
     IN  /\ data # Missing
         /\ part.key \in DOMAIN data
         /\ cache' = Put(cache, Key(part), data)
         /\ CountWrite(part)
         /\ AddPiece(n, data[part.key])
  /\ UNCHANGED <<phase, pos, child, store, token, touched, moved>>

\* Faulty variant: a reference to nothing is passed on as it is.
ResolveMissingKeepsText(n) ==
  /\ IgnoreMissing
  /\ Current(n)
  /\ Got(Due(n)) = Missing
  /\ CountWrite(Due(n))
  /\ AddPiece(n, "template")
  /\ UNCHANGED <<phase, pos, cache, child, store, token, touched, moved>>

\* Nothing at the path, and VAULT_IGNORE_MISSING_SECRETS: a plain reference is
\* left out, an inline one keeps the text of its ${...}.  Nothing is cached.
ResolveMissing(n) ==
  /\ IgnoreMissing
  /\ Current(n)
  /\ Got(Due(n)) = Missing
  /\ CountWrite(Due(n))
  /\ \/ /\ Template[n].kind = "ref"
        /\ todo' = todo \ {n}
        /\ UNCHANGED <<at, pieces, out>>
     \/ /\ Template[n].kind = "inline"
        /\ AddPiece(n, "template")
  /\ UNCHANGED <<phase, pos, cache, child, store, token, touched, moved>>

-----------------------------------------------------------------------------
(* InjectSecretsFromVaultPath: one entry after the other, never cached.    *)

ReferencesDone == Resolving /\ todo = {}

FromData(data) == [k \in DOMAIN data |-> <<data[k]>>]

ReadPathFirstWins ==                                       \* Faulty variant
  /\ ReferencesDone
  /\ pos <= Len(EnvFrom)
  /\ vault[EnvFrom[pos]] # Missing
  /\ out' = Over(out, FromData(vault[EnvFrom[pos]]))
  /\ pos' = pos + 1
  /\ UNCHANGED <<phase, todo, at, pieces, cache, child, writes, store, token, touched, moved>>

\* Every key of the path becomes a variable, over what was there before.
ReadPath ==
  /\ ReferencesDone
  /\ pos <= Len(EnvFrom)
  /\ vault[EnvFrom[pos]] # Missing
  /\ out' = Over(FromData(vault[EnvFrom[pos]]), out)
  /\ pos' = pos + 1
  /\ UNCHANGED <<phase, todo, at, pieces, cache, child, writes, store, token, touched, moved>>

SkipPath ==
  /\ ReferencesDone
  /\ pos <= Len(EnvFrom)
  /\ vault[EnvFrom[pos]] = Missing
  /\ IgnoreMissing
  /\ pos' = pos + 1
  /\ UNCHANGED <<phase, todo, at, pieces, cache, out, child, writes, store, token, touched, moved>>

-----------------------------------------------------------------------------
(* Errors end the resolution: the process before the application has       *)
(* started, a poll without consequences afterwards.                        *)

\* The request fails, or what it returns is not what the template needs.  A
\* write that failed may have been done nevertheless.
ReferenceFails(n) ==
  /\ Current(n)
  /\ LET part == Due(n)
     IN  \/ Requested(part) /\ (CountWrite(part) \/ UNCHANGED writes)
         \/ /\ Got(part) = Missing
            /\ ~IgnoreMissing
            /\ CountWrite(part)
         \/ /\ Got(part) # Missing
            /\ part.key \notin DOMAIN Got(part)
            /\ CountWrite(part)

PathFails ==
  /\ ReferencesDone
  /\ pos <= Len(EnvFrom)
  /\ UNCHANGED writes

Fails == PathFails \/ \E n \in todo : ReferenceFails(n)

InjectFails ==
  /\ phase = "inject"
  /\ Fails
  /\ phase' = "failed"
  /\ UNCHANGED <<injector, child, store, token, touched, moved>>

\* The watcher warns and waits for the next tick.  After "permission denied"
\* it logs in again, or reads the token file again, which may yield the same.
PollFails ==
  /\ phase = "poll"
  /\ Fails
  /\ phase' = "ready"
  /\ \/ UNCHANGED <<token, touched, moved>>
     \/ /\ CanRelogin
        /\ token < Len(Tokens)
        /\ token' = token + 1
        /\ touched' = TRUE
        /\ moved' = TRUE
  /\ UNCHANGED <<injector, child, store>>

-----------------------------------------------------------------------------
(* main() with everything resolved, and the polls of the watcher.          *)

AllResolved == ReferencesDone /\ pos > Len(EnvFrom)

StartChildBaselineOfChild ==                               \* Faulty variant
  /\ phase = "inject"
  /\ AllResolved
  /\ given' = Only(out, {n \in DOMAIN out : Passes(n)})
  /\ baseline' = Only(given', DOMAIN out \ UpdateNames)
  /\ phase' = IF HasWatchedSecrets THEN "ready" ELSE "unwatched"
  /\ UNCHANGED <<injector, writes, store, token, touched, moved>>

\* The sanitized environment is what the child gets; the names of update-style
\* templates are deleted from the baseline.
StartChild ==
  /\ phase = "inject"
  /\ AllResolved
  /\ given' = Only(out, {n \in DOMAIN out : Passes(n)})
  /\ baseline' = Only(out, DOMAIN out \ UpdateNames)
  /\ phase' = IF HasWatchedSecrets THEN "ready" ELSE "unwatched"
  /\ UNCHANGED <<injector, writes, store, token, touched, moved>>

TickSameInjector ==                                        \* Faulty variant
  /\ phase = "ready"
  /\ phase' = "poll"
  /\ StartInjector(WatchedTemplates)
  /\ moved' = FALSE
  /\ UNCHANGED <<cache, child, writes, store, token, touched>>

TickAllTemplates ==                                        \* Faulty variant
  /\ phase = "ready"
  /\ phase' = "poll"
  /\ StartInjector(Names)
  /\ cache' = <<>>
  /\ moved' = FALSE
  /\ UNCHANGED <<child, writes, store, token, touched>>

\* A poll begins with a new injector and the watched templates.
Tick ==
  /\ phase = "ready"
  /\ phase' = "poll"
  /\ StartInjector(WatchedTemplates)
  /\ cache' = <<>>
  /\ moved' = FALSE
  /\ UNCHANGED <<child, writes, store, token, touched>>

\* The hashes are equal just when the resolved sets are.
Compare ==
  /\ phase = "poll"
  /\ AllResolved
  /\ phase' = IF out = baseline THEN "ready" ELSE "restart"
  /\ UNCHANGED <<injector, child, writes, store, token, touched, moved>>

-----------------------------------------------------------------------------
\* Vault, external: someone changes, deletes or creates what is at path p.
VaultChanges(p) ==
  /\ changes < MaxChanges
  /\ \E data \in Contents[p] \ {vault[p]} : vault' = [vault EXCEPT ![p] = data]
  /\ changes' = changes + 1
  /\ touched' = TRUE
  /\ moved' = TRUE
  /\ UNCHANGED <<phase, injector, child, writes, token>>

Next ==
  \/ \E n \in todo : ResolvePlain(n) \/ ResolvePart(n) \/ ResolveMissing(n)
  \/ ReadPath
  \/ SkipPath
  \/ InjectFails
  \/ PollFails
  \/ StartChild
  \/ Tick
  \/ Compare
  \/ Restart
  \/ \E p \in Paths : VaultChanges(p)

Spec == Init /\ [][Next]_vars

-----------------------------------------------------------------------------
(* What the templates mean, said without the steps that find it out: used  *)
(* by the properties only.                                                 *)

PartData(part, v) == IF part.update THEN WriteReply[part.path] ELSE v[part.path]

PartMeans(part, v) ==
  IF PartData(part, v) = Missing THEN "template" ELSE PartData(part, v)[part.key]

\* A plain reference to nothing leaves the variable out.
LeftOut(n, v) == Template[n].kind = "ref" /\ PartData(Parts(n)[1], v) = Missing

ValueMeans(n, v, t) ==
  CASE Template[n].kind = "plain" -> <<"text">>
    [] Template[n].kind = "token" -> <<Tokens[t]>>
    [] Template[n].kind = "login" -> <<"vault:login">>
    [] OTHER -> [i \in DOMAIN Parts(n) |-> PartMeans(Parts(n)[i], v)]

\* The entries of VAULT_ENV_FROM_PATH that provide key k.
Providers(k, v) ==
  {i \in DOMAIN EnvFrom : v[EnvFrom[i]] # Missing /\ k \in DOMAIN v[EnvFrom[i]]}

LastOf(S) == CHOOSE i \in S : \A j \in S : j <= i

KeysFromPaths(v) ==
  UNION {IF v[EnvFrom[i]] = Missing THEN {} ELSE DOMAIN v[EnvFrom[i]] : i \in DOMAIN EnvFrom}

\* The environment the names and VAULT_ENV_FROM_PATH stand for.
Means(names, v, t) ==
  [n \in KeysFromPaths(v) \cup {m \in names : ~LeftOut(m, v)} |->
     IF Providers(n, v) # {}
       THEN <<v[EnvFrom[LastOf(Providers(n, v))]][n]>>
       ELSE ValueMeans(n, v, t)]

-----------------------------------------------------------------------------
(* Properties.                                                             *)

\* The data Vault may hold at a path.
Data(p) == Contents[p] \ {Missing}

VaultPieces == UNION {UNION {{d[k] : k \in DOMAIN d} : d \in Data(p)} : p \in Paths}

ReplyPieces ==
  UNION {IF WriteReply[p] = Missing THEN {}
         ELSE {WriteReply[p][k] : k \in DOMAIN WriteReply[p]} : p \in Paths}

Pieces == VaultPieces \cup ReplyPieces
            \cup {Tokens[i] : i \in DOMAIN Tokens}
            \cup {"text", "template", "vault:login"}

\* Names that a path of VAULT_ENV_FROM_PATH may provide.
FromPathNames ==
  UNION {UNION {DOMAIN d : d \in Data(EnvFrom[i])} : i \in DOMAIN EnvFrom}

AllNames == Names \cup FromPathNames

IsEnv(e) == DOMAIN e \subseteq AllNames /\ \A n \in DOMAIN e : e[n] \in Seq(Pieces)

InjectorOK ==
  /\ todo \subseteq Names
  /\ at \in todo \cup {None}
  /\ pieces \in Seq(Pieces)
  /\ at = None => pieces = <<>>
  /\ at # None => Len(pieces) \in 1..(Len(Parts(at)) - 1)
  /\ pos \in 1..(Len(EnvFrom) + 1)
  /\ IsEnv(out)

ChildOK ==
  /\ phase \in Phases
  /\ IsEnv(given)
  /\ IsEnv(baseline)

StoreOK ==
  /\ DOMAIN vault = Paths
  /\ \A p \in Paths : vault[p] \in Contents[p]
  /\ changes \in 0..MaxChanges
  /\ token \in DOMAIN Tokens

\* The variables have their types, and the loops stay inside their ranges.
TypeOK ==
  /\ InjectorOK
  /\ ChildOK
  /\ StoreOK
  /\ DOMAIN cache \subseteq Paths \X BOOLEAN
  /\ writes \in [Paths -> Nat]
  /\ touched \in BOOLEAN /\ moved \in BOOLEAN

\* The container is restarted only if something in Vault, or the token, has
\* changed since the process began to read (main.go:425-428: both sides of the
\* comparison cover the same set).
RestartMeansChange == phase = "restart" => touched

\* A poll during which Vault stands still ends in a restart exactly when what
\* the watched templates mean now differs from what they meant for the child.
PollVerdict ==
  [][phase = "poll" /\ AllResolved /\ ~moved /\ phase' # "poll" =>
       (phase' = "restart") <=> (Means(WatchedTemplates, vault, token) # baseline)]_vars

\* If Vault stood still while the environment was resolved, the child gets
\* what the documentation promises: explicit references, under them the paths
\* of env-from-path, the later ones taking precedence, without VAULT_* names.
EnvAsDocumented ==
  [][phase = "inject" /\ phase' \in {"ready", "unwatched"} /\ ~touched =>
       given' = Only(Means(Names, vault, token), {n \in AllNames : Passes(n)})]_vars

\* Piece i of name n in env was read from path p.
ReadFrom(p, env, n, i) ==
  /\ Parts(n)[i].path = p
  /\ ~Parts(n)[i].update
  /\ env[n][i] # "template"

FromOneVersion(env) ==
  \A p \in Paths :
    \E d \in Contents[p] :
      \A n \in DOMAIN env \ FromPathNames : \A i \in DOMAIN Parts(n) :
        ReadFrom(p, env, n, i) =>
          d # Missing /\ Parts(n)[i].key \in DOMAIN d /\ env[n][i] = d[Parts(n)[i].key]

\* The references of one environment to one path show one version of it, also
\* when the secret is rotated between two of them: a user name is never paired
\* with the password of another (the cache of injector.go:131-152).
SameVersion == FromOneVersion(given) /\ FromOneVersion(out)

\* A process writes to a path at most once: two references to it share the
\* answer, and no poll repeats the write (main.go:425-428, injector.go:303-305).
WriteOnce == \A p \in Paths : WriteReply[p] # Missing => writes[p] <= 1

\* No template is left in the environment of the application: it "must not
\* leak into the child process" (main.go:501-503).
NoTemplateLeaks ==
  \A n \in DOMAIN given : \A i \in DOMAIN given[n] : given[n][i] # "template"

\* With VAULT_TOKEN=vault:login the application gets the token of the login:
\* "the login token needs to be passed through to the application"
\* (main.go:38-39).
LoginTokenPassed ==
  IsLogin /\ phase \in {"ready", "unwatched"} /\ "VAULT_TOKEN" \notin FromPathNames =>
    \E i \in DOMAIN Tokens : given["VAULT_TOKEN"] = <<Tokens[i]>>

=============================================================================
