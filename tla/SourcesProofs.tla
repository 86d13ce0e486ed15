--------------------------- MODULE SourcesProofs ---------------------------
(***************************************************************************)
(* Proofs about Configuration and Sources, for every set of settings and   *)
(* objects and every resolution of the clock.                              *)
(*                                                                         *)
(* First Configuration.  Load is determined by the settings, so the        *)
(* invariant says what each variable is at each stage, in terms of what    *)
(* the operator wrote; the properties follow from it.  The steps of        *)
(* Sources are steps of Configuration or leave it alone, so that the       *)
(* invariant holds there too.                                              *)
(***************************************************************************)
EXTENDS Sources, WellFoundedInduction, TLAPS

-----------------------------------------------------------------------------
(* Configuration.                                                          *)

LEMMA DefaultPoliciesTyped ==
  /\ DefaultPolicies \in SUBSET [text: Operations, form: Forms]
  /\ \A op \in Operations : \E w \in DefaultPolicies : w.text = op /\ w.form # "padded"
<1>1. \A op \in Operations : /\ Plain(op) \in [text: Operations, form: Forms]
                             /\ Plain(op).text = op /\ Plain(op).form # "padded"
  BY DEF Plain, Forms
<1>2. DefaultPolicies = {Plain(op) : op \in Operations}
  BY DEF DefaultPolicies
<1> QED BY <1>1, <1>2

LEMMA FileTyped ==
  ASSUME NEW s, IsSettings(s)
  PROVE  /\ FileKeys(s) \in Seq(Keys)
         /\ FileOAuth(s) \in OAuths
         /\ \A c \in DOMAIN FileConnections(s) :
              c \in Strings /\ FileConnections(s)[c] \in Databases
<1>1. CASE s.file = NoFile
  <2>1. Plain("default") \in Written /\ Plain("read") \in Written /\ Blank \in Written
    BY StringsAssumption DEF Plain, Written, Forms, Blank, Scopes
  <2>2. FallbackKeys(s.env) \in Seq(Keys)
    <3> DEFINE k == [name |-> Plain("default"), token |-> s.env.apiKey,
                     digest |-> "", scopes |-> {Plain("read")},
                     connections |-> {"default"}]
    <3>1. s.env.apiKey \in Written
      BY DEF IsSettings, Environments
    <3>2. k \in Keys
      BY <2>1, <3>1, StringsAssumption DEF Keys
    <3>3. FallbackKeys(s.env) \in {<< >>, <<k>>}
      BY DEF FallbackKeys
    <3> HIDE DEF k
    <3>4. << >> \in Seq(Keys) /\ <<k>> \in Seq(Keys)
      BY <3>2
    <3> QED BY <3>3, <3>4
  <2>3. NoOAuth \in OAuths
    BY <2>1, StringsAssumption DEF NoOAuth, OAuths
  <2>4. \A c \in DOMAIN FallbackConnections :
          c \in Strings /\ FallbackConnections[c] \in Databases
    BY StringsAssumption, DefaultPoliciesTyped DEF FallbackConnections, Databases
  <2> QED BY <1>1, <2>2, <2>3, <2>4 DEF FileKeys, FileOAuth, FileConnections
<1>2. CASE s.file # NoFile
  BY <1>2 DEF IsSettings, IsFile, FileKeys, FileOAuth, FileConnections
<1> QED BY <1>1, <1>2

LEMMA EnvTyped ==
  ASSUME IsSettings(settings)
  PROVE  env \in Environments
BY DEF IsSettings, env

\* What applyEnvironmentPrincipals does for one role.
LEMMA WithRoleKeys ==
  ASSUME NEW ks \in Seq(Keys), NEW r \in Roles, env \in Environments
  PROVE  /\ WithRole(ks, r) \in Seq(Keys)
         /\ \A i \in DOMAIN ks : i \in DOMAIN WithRole(ks, r) /\ WithRole(ks, r)[i] = ks[i]
         /\ \A i \in DOMAIN WithRole(ks, r) : i \in DOMAIN ks \/ WithRole(ks, r)[i] = RoleKey(r)
         /\ \A n \in Strings : n # r => (HasName(WithRole(ks, r), n) <=> HasName(ks, n))
         /\ Trimmed(env.roles[r]) # Blank /\ ~HasName(ks, r)
              => \E i \in DOMAIN WithRole(ks, r) :
                   WithRole(ks, r)[i] = RoleKey(r) /\ WithRole(ks, r)[i].name = Plain(r)
<1> DEFINE k == RoleKey(r)
<1>1. k \in Keys
  <2>0. env.roles[r] \in Written
    BY DEF Environments
  <2>1. r \in Strings /\ Trimmed(env.roles[r]) \in Written
    BY <2>0, StringsAssumption DEF Roles, Trimmed, Plain, Written, Forms
  <2>2. \A sc \in RoleScopes(r) : sc \in Strings
    BY StringsAssumption DEF Roles, RoleScopes, Scopes
  <2>3. \A t \in Strings : Plain(t) \in Written
    BY DEF Plain, Written, Forms
  <2>4. {Plain(sc) : sc \in RoleScopes(r)} \in SUBSET Written
    BY <2>2, <2>3
  <2> QED BY <2>1, <2>3, <2>4, StringsAssumption DEF Keys, RoleKey
<1>2. CASE Trimmed(env.roles[r]) = Blank \/ HasName(ks, r)
  BY <1>2 DEF WithRole
<1>3. CASE ~(Trimmed(env.roles[r]) = Blank \/ HasName(ks, r))
  <2>1. WithRole(ks, r) = Append(ks, k)
    BY <1>3 DEF WithRole
  <2>0. k = RoleKey(r)
    BY DEF k
  <2> HIDE DEF k
  <2>2. /\ Append(ks, k) \in Seq(Keys)
        /\ DOMAIN Append(ks, k) = DOMAIN ks \cup {Len(ks) + 1}
        /\ Append(ks, k)[Len(ks) + 1] = k
        /\ \A i \in DOMAIN ks : Append(ks, k)[i] = ks[i]
    BY <1>1
  <2>3. k.name = Plain(r) /\ k.name.text = r
    BY DEF k, RoleKey, Plain
  <2>4. \A n \in Strings : n # r => (HasName(Append(ks, k), n) <=> HasName(ks, n))
    BY <2>2, <2>3 DEF HasName
  <2> QED BY <1>3, <2>0, <2>1, <2>2, <2>3, <2>4
<1> QED BY <1>2, <1>3

\* The keys after applyEnvironmentPrincipals.
DeclaredKeys ==
  WithRole(WithRole(WithRole(FileKeys(settings), "writer"), "ddl"), "admin")

LEMMA DeclaredFacts ==
  ASSUME IsSettings(settings)
  PROVE  /\ DeclaredKeys \in Seq(Keys)
         /\ \A i \in DOMAIN FileKeys(settings) :
              i \in DOMAIN DeclaredKeys /\ DeclaredKeys[i] = FileKeys(settings)[i]
         /\ \A n \in Roles : RoleDeclared(n) =>
              \E i \in DOMAIN DeclaredKeys : DeclaredKeys[i].name = Plain(n)
<1> DEFINE k0 == FileKeys(settings)
           k1 == WithRole(k0, "writer")
           k2 == WithRole(k1, "ddl")
           k3 == WithRole(k2, "admin")
<1>1. env \in Environments /\ k0 \in Seq(Keys)
  BY EnvTyped, FileTyped
<1>2. "writer" \in Roles /\ "ddl" \in Roles /\ "admin" \in Roles
  BY DEF Roles
<1>3. DeclaredKeys = k3
  BY DEF DeclaredKeys
<1> HIDE DEF k0
<1>4. /\ k1 \in Seq(Keys)
      /\ \A i \in DOMAIN k0 : i \in DOMAIN k1 /\ k1[i] = k0[i]
      /\ \A n \in Strings : n # "writer" => (HasName(k1, n) <=> HasName(k0, n))
      /\ Trimmed(env.roles["writer"]) # Blank /\ ~HasName(k0, "writer")
           => \E i \in DOMAIN k1 : k1[i].name = Plain("writer")
  BY <1>1, <1>2, WithRoleKeys
<1> HIDE DEF k1
<1>5. /\ k2 \in Seq(Keys)
      /\ \A i \in DOMAIN k1 : i \in DOMAIN k2 /\ k2[i] = k1[i]
      /\ \A n \in Strings : n # "ddl" => (HasName(k2, n) <=> HasName(k1, n))
      /\ Trimmed(env.roles["ddl"]) # Blank /\ ~HasName(k1, "ddl")
           => \E i \in DOMAIN k2 : k2[i].name = Plain("ddl")
  BY <1>1, <1>2, <1>4, WithRoleKeys
<1> HIDE DEF k2
<1>6. /\ k3 \in Seq(Keys)
      /\ \A i \in DOMAIN k2 : i \in DOMAIN k3 /\ k3[i] = k2[i]
      /\ Trimmed(env.roles["admin"]) # Blank /\ ~HasName(k2, "admin")
           => \E i \in DOMAIN k3 : k3[i].name = Plain("admin")
  BY <1>1, <1>2, <1>5, WithRoleKeys
<1> HIDE DEF k3
<1>7. ASSUME NEW n \in Roles, RoleDeclared(n)
      PROVE  \E i \in DOMAIN k3 : k3[i].name = Plain(n)
  <2>1. Trimmed(env.roles[n]) # Blank /\ ~HasName(k0, n)
    BY <1>7 DEF RoleDeclared, k0
  <2>0. n \in Strings
    BY StringsAssumption
  <2>2. CASE n = "writer"
    BY <2>1, <2>2, <1>4, <1>5, <1>6
  <2>3. CASE n = "ddl"
    BY <2>0, <2>1, <2>3, <1>4, <1>5, <1>6
  <2>4. CASE n = "admin"
    BY <2>0, <2>1, <2>4, <1>4, <1>5, <1>6
  <2> QED BY <2>2, <2>3, <2>4 DEF Roles
<1>8. \A i \in DOMAIN k0 : i \in DOMAIN k3 /\ k3[i] = k0[i]
  BY <1>4, <1>5, <1>6
<1> QED BY <1>3, <1>6, <1>7, <1>8 DEF k0

\* Keys that begin with those of the file, and go on with keys of declared
\* roles, each with a name that no other has.
RolesFollow(ks) ==
  /\ ks \in Seq(Keys)
  /\ \A i \in DOMAIN FileKeys(settings) :
       i \in DOMAIN ks /\ ks[i] = FileKeys(settings)[i]
  /\ \A i \in DOMAIN ks : i \notin DOMAIN FileKeys(settings) =>
       /\ \E r \in Roles : RoleDeclared(r) /\ ks[i] = RoleKey(r)
       /\ \A j \in DOMAIN ks : j # i => ks[j].name # ks[i].name

LEMMA RoleFollows ==
  ASSUME NEW ks, RolesFollow(ks), NEW r \in Roles, env \in Environments
  PROVE  RolesFollow(WithRole(ks, r))
<1> DEFINE k == RoleKey(r)
           file == FileKeys(settings)
<1>1. /\ ks \in Seq(Keys) /\ WithRole(ks, r) \in Seq(Keys)
      /\ \A i \in DOMAIN file : i \in DOMAIN ks /\ ks[i] = file[i]
  BY WithRoleKeys DEF RolesFollow
<1>2. CASE Trimmed(env.roles[r]) = Blank \/ HasName(ks, r)
  BY <1>2 DEF WithRole
<1>3. CASE Trimmed(env.roles[r]) # Blank /\ ~HasName(ks, r)
  <2>1. ~HasName(file, r)
    <3> HIDE DEF file
    <3> QED BY <1>1, <1>3 DEF HasName
  <2>2. RoleDeclared(r)
    BY <1>3, <2>1 DEF RoleDeclared
  <2>3. k.name = Plain(r) /\ Plain(r).text = r
    BY DEF RoleKey, Plain
  <2>4. WithRole(ks, r) = Append(ks, k)
    BY <1>3 DEF WithRole
  <2>5. \A j \in DOMAIN ks : ks[j].name # Plain(r)
    BY <1>3, <2>3 DEF HasName
  <2>6. \A i \in DOMAIN ks : i \notin DOMAIN file =>
          /\ \E q \in Roles : RoleDeclared(q) /\ ks[i] = RoleKey(q)
          /\ \A j \in DOMAIN ks : j # i => ks[j].name # ks[i].name
    BY DEF RolesFollow
  <2>7. k = RoleKey(r)
    OBVIOUS
  <2> HIDE DEF k, file
  <2>8. /\ DOMAIN Append(ks, k) = DOMAIN ks \cup {Len(ks) + 1}
        /\ Append(ks, k)[Len(ks) + 1] = k
        /\ \A i \in DOMAIN ks : Append(ks, k)[i] = ks[i]
    BY <1>1
  <2>9. ASSUME NEW i \in DOMAIN Append(ks, k), i \notin DOMAIN file
        PROVE  /\ \E q \in Roles : RoleDeclared(q) /\ Append(ks, k)[i] = RoleKey(q)
               /\ \A j \in DOMAIN Append(ks, k) :
                    j # i => Append(ks, k)[j].name # Append(ks, k)[i].name
    <3>1. CASE i \in DOMAIN ks
      BY <2>3, <2>5, <2>6, <2>8, <2>9, <3>1
    <3>2. CASE i = Len(ks) + 1
      BY <2>2, <2>3, <2>5, <2>7, <2>8, <3>2
    <3> QED BY <2>8, <3>1, <3>2
  <2> QED BY <1>1, <2>4, <2>8, <2>9 DEF RolesFollow, file
<1> QED BY <1>2, <1>3

LEMMA DeclaredRoles ==
  ASSUME IsSettings(settings)
  PROVE  RolesFollow(DeclaredKeys)
<1>1. env \in Environments /\ FileKeys(settings) \in Seq(Keys)
  BY EnvTyped, FileTyped
<1>2. RolesFollow(FileKeys(settings))
  BY <1>1 DEF RolesFollow
<1>3. "writer" \in Roles /\ "ddl" \in Roles /\ "admin" \in Roles
  BY DEF Roles
<1>4. RolesFollow(WithRole(FileKeys(settings), "writer"))
  BY <1>1, <1>2, <1>3, RoleFollows
<1>5. RolesFollow(WithRole(WithRole(FileKeys(settings), "writer"), "ddl"))
  BY <1>1, <1>3, <1>4, RoleFollows
<1> QED BY <1>1, <1>3, <1>5, RoleFollows DEF DeclaredKeys

\* Up to the key of a role there are keys of the file and of lesser roles.
LEMMA DeclaredPositions ==
  ASSUME IsSettings(settings), NEW r \in Roles, RoleDeclared(r)
  PROVE  \E p \in DOMAIN DeclaredKeys :
           /\ DeclaredKeys[p] = RoleKey(r)
           /\ \A i \in DOMAIN DeclaredKeys : i <= p =>
                \/ i \in DOMAIN FileKeys(settings)
                \/ \E q \in Roles : /\ DeclaredKeys[i] = RoleKey(q)
                                    /\ RoleScopes(q) \subseteq RoleScopes(r)
<1> DEFINE k0 == FileKeys(settings)
           k1 == WithRole(k0, "writer")
           k2 == WithRole(k1, "ddl")
           k3 == WithRole(k2, "admin")
<1>1. /\ env \in Environments /\ k0 \in Seq(Keys)
      /\ Trimmed(env.roles[r]) # Blank /\ ~HasName(k0, r)
  BY EnvTyped, FileTyped DEF RoleDeclared
<1>0. "writer" \in Roles /\ "ddl" \in Roles /\ "admin" \in Roles
  BY DEF Roles
<1>2. Roles = {"writer", "ddl", "admin"} /\ r \in Strings
  BY StringsAssumption DEF Roles
<1>3. /\ RoleScopes("writer") \subseteq RoleScopes("ddl")
      /\ \A q \in Roles : RoleScopes(q) \subseteq RoleScopes("admin")
  BY DEF Roles, RoleScopes, Scopes
<1>4. DeclaredKeys = k3
  BY DEF DeclaredKeys
<1> HIDE DEF k0
<1>5. /\ k1 \in Seq(Keys)
      /\ \A i \in DOMAIN k0 : i \in DOMAIN k1 /\ k1[i] = k0[i]
      /\ \A i \in DOMAIN k1 : i \in DOMAIN k0 \/ k1[i] = RoleKey("writer")
      /\ \A n \in Strings : n # "writer" => (HasName(k1, n) <=> HasName(k0, n))
      /\ Trimmed(env.roles["writer"]) # Blank /\ ~HasName(k0, "writer")
           => \E p \in DOMAIN k1 : k1[p] = RoleKey("writer")
  BY <1>0, <1>1, WithRoleKeys
<1> HIDE DEF k1
<1>6. /\ k2 \in Seq(Keys)
      /\ \A i \in DOMAIN k1 : i \in DOMAIN k2 /\ k2[i] = k1[i]
      /\ \A i \in DOMAIN k2 : i \in DOMAIN k1 \/ k2[i] = RoleKey("ddl")
      /\ \A n \in Strings : n # "ddl" => (HasName(k2, n) <=> HasName(k1, n))
      /\ Trimmed(env.roles["ddl"]) # Blank /\ ~HasName(k1, "ddl")
           => \E p \in DOMAIN k2 : k2[p] = RoleKey("ddl")
  <2>1. k1 \in Seq(Keys) /\ env \in Environments /\ "ddl" \in Roles
    BY <1>0, <1>1, <1>5
  <2> QED BY <2>1, WithRoleKeys
<1> HIDE DEF k2
<1>7. /\ k3 \in Seq(Keys)
      /\ \A i \in DOMAIN k2 : i \in DOMAIN k3 /\ k3[i] = k2[i]
      /\ \A i \in DOMAIN k3 : i \in DOMAIN k2 \/ k3[i] = RoleKey("admin")
      /\ Trimmed(env.roles["admin"]) # Blank /\ ~HasName(k2, "admin")
           => \E p \in DOMAIN k3 : k3[p] = RoleKey("admin")
  <2>1. k2 \in Seq(Keys) /\ env \in Environments /\ "admin" \in Roles
    BY <1>0, <1>1, <1>6
  <2> QED BY <2>1, WithRoleKeys
<1> HIDE DEF k3
<1>8. \A i \in DOMAIN k3, p \in DOMAIN k1 : i <= p => i \in DOMAIN k1
  BY <1>5, <1>7
<1>9. \A i \in DOMAIN k3, p \in DOMAIN k2 : i <= p => i \in DOMAIN k2
  BY <1>6, <1>7
<1>10. \A i \in DOMAIN k1 : i \in DOMAIN k0 \/ k3[i] = RoleKey("writer")
  BY <1>5, <1>6, <1>7
<1>11. \A i \in DOMAIN k2 : i \in DOMAIN k1 \/ k3[i] = RoleKey("ddl")
  BY <1>6, <1>7
<1>12. CASE r = "writer"
  <2>1. PICK p \in DOMAIN k1 : k1[p] = RoleKey(r)
    BY <1>1, <1>5, <1>12
  <2>2. p \in DOMAIN k3 /\ k3[p] = RoleKey(r)
    BY <1>6, <1>7, <2>1
  <2>3. \A i \in DOMAIN k3 : i <= p => i \in DOMAIN k0 \/ k3[i] = RoleKey("writer")
    BY <1>8, <1>10
  <2> QED BY <1>2, <1>4, <1>12, <2>2, <2>3 DEF k0
<1>13. CASE r = "ddl"
  <2>1. PICK p \in DOMAIN k2 : k2[p] = RoleKey(r)
    BY <1>1, <1>2, <1>5, <1>6, <1>13
  <2>2. p \in DOMAIN k3 /\ k3[p] = RoleKey(r)
    BY <1>7, <2>1
  <2>3. \A i \in DOMAIN k3 : i <= p =>
          \/ i \in DOMAIN k0
          \/ k3[i] = RoleKey("writer") \/ k3[i] = RoleKey("ddl")
    BY <1>9, <1>10, <1>11
  <2> QED BY <1>2, <1>3, <1>4, <1>13, <2>2, <2>3 DEF k0
<1>14. CASE r = "admin"
  <2>1. PICK p \in DOMAIN k3 : k3[p] = RoleKey(r)
    BY <1>1, <1>2, <1>5, <1>6, <1>7, <1>14
  <2>2. \A i \in DOMAIN k3 :
          \/ i \in DOMAIN k0
          \/ \E q \in Roles : k3[i] = RoleKey(q)
    BY <1>2, <1>7, <1>10, <1>11
  <2> QED BY <1>3, <1>4, <1>14, <2>1, <2>2 DEF k0
<1> QED BY <1>2, <1>12, <1>13, <1>14
-----------------------------------------------------------------------------
(* The invariant.                                                          *)

Typed == TypeOK /\ settings \in Settings

EffectiveScopes ==
  ScopeList(env.default, FileOAuth(settings).default) \cup
  ScopeList(env.base, FileOAuth(settings).base)

KeysLoaded ==
  /\ stage = "read" => keys = FileKeys(settings)
  /\ stage # "read" => keys = DeclaredKeys

OAuthLoaded ==
  IF stage \in {"read", "principals"} THEN oauth = FileOAuth(settings)
  ELSE /\ oauth.enabled <=> WantsOAuth
       /\ oauth.principal = IF WrittenPrincipal = Blank THEN FirstName
                                                       ELSE WrittenPrincipal
       /\ oauth.default \cup oauth.base = EffectiveScopes

ConnectionsLoaded ==
  LET written == FileConnections(settings)
  IN  /\ DOMAIN connections = DOMAIN written
      /\ stage \in {"read", "principals", "oauth"} => connections = written
      /\ stage = "defaults" =>
           \A c \in DOMAIN written : connections[c] = Defaulted(written[c])
      /\ stage \in {"loaded", "accepted", "serving", "failed"} =>
           /\ "odd" \notin {env.ddl, env.dml}
           /\ \A c \in DOMAIN written :
                connections[c] = Switched(Defaulted(written[c]))

Decided ==
  /\ stage \in {"accepted", "serving", "failed"} => Valid
  /\ stage = "serving" => Constructs
  /\ stage = "failed" => ~Constructs
  /\ stage = "refused" => "odd" \in {env.ddl, env.dml} \/ ~Valid

IInv == Typed /\ KeysLoaded /\ OAuthLoaded /\ ConnectionsLoaded /\ Decided

\* What the operator wrote changes only with the settings.
LEMMA SettingsFrame ==
  ASSUME settings' = settings
  PROVE  /\ DeclaredKeys' = DeclaredKeys
         /\ WantsOAuth' = WantsOAuth
         /\ WrittenPrincipal' = WrittenPrincipal
         /\ EffectiveScopes' = EffectiveScopes
         /\ env' = env
<1>1. env' = env
  BY DEF env
<1>2. DeclaredKeys' = DeclaredKeys
  BY <1>1 DEF DeclaredKeys, WithRole, RoleKey
<1>3. WantsOAuth' = WantsOAuth
  BY <1>1 DEF WantsOAuth
<1>4. WrittenPrincipal' = WrittenPrincipal
  BY <1>1 DEF WrittenPrincipal
<1>5. EffectiveScopes' = EffectiveScopes
  BY <1>1 DEF EffectiveScopes
<1> QED BY <1>1, <1>2, <1>3, <1>4, <1>5

\* A process that starts to load.
LEMMA Starts ==
  ASSUME settings \in Settings, stage = "read", keys = FileKeys(settings),
         oauth = FileOAuth(settings), connections = FileConnections(settings)
  PROVE  IInv
<1>1. IsSettings(settings)
  BY SettingsAssumption
<1>2. TypeOK
  BY <1>1, FileTyped DEF TypeOK, Stages
<1> QED
  BY <1>2 DEF IInv, Typed, KeysLoaded, OAuthLoaded, ConnectionsLoaded, Decided
-----------------------------------------------------------------------------
(* The steps.                                                              *)

LEMMA PrincipalsStep ==
  ASSUME IInv, EnvironmentPrincipals PROVE IInv'
<1> USE DEF IInv, EnvironmentPrincipals
<1>1. settings' = settings /\ IsSettings(settings)
  BY SettingsAssumption DEF Typed
<1>2. keys' = DeclaredKeys
  BY DEF KeysLoaded, DeclaredKeys
<1>3. Typed'
  BY <1>1, <1>2, DeclaredFacts DEF Typed, TypeOK, Stages
<1>4. KeysLoaded'
  BY <1>1, <1>2, SettingsFrame DEF KeysLoaded
<1>5. OAuthLoaded'
  BY <1>1 DEF OAuthLoaded
<1>6. ConnectionsLoaded'
  BY <1>1 DEF ConnectionsLoaded
<1>7. Decided'
  BY DEF Decided
<1> QED BY <1>3, <1>4, <1>5, <1>6, <1>7

LEMMA ScopeListTyped ==
  ASSUME NEW v \in SUBSET Strings, NEW f \in SUBSET Strings
  PROVE  ScopeList(v, f) \in SUBSET Strings
BY StringsAssumption DEF ScopeList, Listed, Scopes

LEMMA NamedTyped ==
  ASSUME NEW e \in Environments, NEW f \in Written
  PROVE  Named(e, f) \in Written
BY DEF Named, Environments, Trimmed, Plain, Written, Forms

LEMMA OAuthStep ==
  ASSUME IInv, OAuthDefaults PROVE IInv'
<1> USE DEF IInv, OAuthDefaults
<1>1. settings' = settings /\ IsSettings(settings) /\ keys' = keys
  BY SettingsAssumption DEF Typed
<1>2. oauth = FileOAuth(settings) /\ oauth \in OAuths /\ env \in Environments
  BY <1>1, EnvTyped DEF OAuthLoaded, Typed, TypeOK
<1>3. oauth'.enabled <=> WantsOAuth
  BY <1>2 DEF Enabled, WantsOAuth, OAuths
<1>4. oauth'.principal = IF WrittenPrincipal = Blank THEN FirstName ELSE WrittenPrincipal
  BY <1>2 DEF WrittenPrincipal
<1>5. oauth'.default \cup oauth'.base = EffectiveScopes
  BY <1>2 DEF EffectiveScopes
<1>6. FirstName' = FirstName
  BY <1>1 DEF FirstName
<1>7. oauth' \in OAuths
  <2>1. Blank \in Written
    BY StringsAssumption DEF Blank, Plain, Written, Forms
  <2>2. FirstName \in Written
    <3>1. keys \in Seq(Keys)
      BY DEF Typed, TypeOK
    <3>2. keys # << >> => keys[1] \in Keys
      BY <3>1
    <3> QED BY <2>1, <3>2 DEF FirstName, Keys
  <2>3. WrittenPrincipal \in Written
    BY <1>2, NamedTyped DEF WrittenPrincipal, OAuths
  <2>4. oauth'.principal \in Written
    BY <1>4, <2>2, <2>3
  <2>5. /\ ScopeList(env.default, oauth.default) \in SUBSET Strings
        /\ ScopeList(env.base, oauth.base) \in SUBSET Strings
    BY <1>2, ScopeListTyped DEF Environments, OAuths
  <2>6. Enabled \in BOOLEAN
    BY <1>2 DEF Enabled, OAuths
  <2> QED BY <2>4, <2>5, <2>6 DEF OAuths
<1>8. Typed'
  BY <1>1, <1>7 DEF Typed, TypeOK, Stages
<1>9. KeysLoaded'
  BY <1>1, SettingsFrame DEF KeysLoaded
<1>10. OAuthLoaded'
  BY <1>1, <1>3, <1>4, <1>5, <1>6, SettingsFrame DEF OAuthLoaded
<1>11. ConnectionsLoaded'
  BY <1>1 DEF ConnectionsLoaded
<1>12. Decided'
  BY DEF Decided
<1> QED BY <1>8, <1>9, <1>10, <1>11, <1>12

\* Later stages leave keys and oauth as they are.
LEMMA KeysAndOAuthStay ==
  ASSUME KeysLoaded, OAuthLoaded, stage \notin {"read", "principals"},
         stage' \notin {"read", "principals"},
         UNCHANGED <<settings, keys, oauth>>
  PROVE  KeysLoaded' /\ OAuthLoaded'
<1>1. FirstName' = FirstName
  BY DEF FirstName
<1> QED
  BY <1>1, SettingsFrame DEF KeysLoaded, OAuthLoaded

LEMMA DefaultedTyped ==
  ASSUME NEW d \in Databases
  PROVE  Defaulted(d) \in Databases
BY StringsAssumption, DefaultPoliciesTyped DEF Defaulted, Databases

LEMMA ConnectionStep ==
  ASSUME IInv, ConnectionDefaults PROVE IInv'
<1> USE DEF IInv, ConnectionDefaults
<1>1. settings' = settings
  OBVIOUS
<1>2. /\ DOMAIN connections' = DOMAIN connections
      /\ \A c \in DOMAIN connections : connections'[c] = Defaulted(connections[c])
  OBVIOUS
<1>3. Typed'
  BY <1>1, <1>2, DefaultedTyped DEF Typed, TypeOK, Stages
<1>4. KeysLoaded' /\ OAuthLoaded'
  BY KeysAndOAuthStay
<1>5. ConnectionsLoaded'
  BY <1>1, <1>2 DEF ConnectionsLoaded
<1>6. Decided'
  BY DEF Decided
<1> QED BY <1>3, <1>4, <1>5, <1>6

LEMMA SwitchedTyped ==
  ASSUME NEW d \in Databases, env \in Environments,
         "odd" \notin {env.ddl, env.dml}
  PROVE  Switched(d) \in Databases
BY DefaultPoliciesTyped DEF Switched, Databases, Environments, Switches

LEMMA MutationStep ==
  ASSUME IInv, MutationEnvironment PROVE IInv'
<1> USE DEF IInv, MutationEnvironment
<1>1. settings' = settings /\ env' = env /\ env \in Environments
  BY EnvTyped, SettingsFrame DEF Typed, TypeOK
<1>2. KeysLoaded' /\ OAuthLoaded'
  BY KeysAndOAuthStay
<1>3. CASE "odd" \in {env.ddl, env.dml}
  <2>1. stage' = "refused" /\ connections' = connections
    BY <1>3
  <2>2. Typed'
    BY <1>1, <2>1 DEF Typed, TypeOK, Stages
  <2>3. ConnectionsLoaded'
    BY <1>1, <2>1 DEF ConnectionsLoaded
  <2>4. Decided'
    BY <1>1, <1>3, <2>1 DEF Decided
  <2> QED BY <1>2, <2>2, <2>3, <2>4
<1>4. CASE "odd" \notin {env.ddl, env.dml}
  <2>1. /\ stage' = "loaded"
        /\ DOMAIN connections' = DOMAIN connections
        /\ \A c \in DOMAIN connections : connections'[c] = Switched(connections[c])
    BY <1>4
  <2>2. Typed'
    BY <1>1, <1>4, <2>1, SwitchedTyped DEF Typed, TypeOK, Stages
  <2>3. \A d : Switched(d)' = Switched(d)
    BY <1>1 DEF Switched
  <2>4. ConnectionsLoaded'
    BY <1>1, <1>4, <2>1, <2>3 DEF ConnectionsLoaded
  <2>5. Decided'
    BY <2>1 DEF Decided
  <2> QED BY <1>2, <2>2, <2>4, <2>5
<1> QED BY <1>3, <1>4

\* What is decided about the loaded values stays as they do.
LEMMA LoadedFrame ==
  ASSUME UNCHANGED <<settings, keys, oauth, connections>>
  PROVE  /\ Valid' = Valid
         /\ Constructs' = Constructs
         /\ \A d : Switched(d)' = Switched(d)
<1>1. \A k : KeyValid(k)' = KeyValid(k)
  BY DEF KeyValid
<1>2. KeysValid' = KeysValid
  BY <1>1 DEF KeysValid
<1>3. OAuthValid' = OAuthValid
  BY DEF OAuthValid
<1>4. Valid' = Valid
  BY <1>2, <1>3 DEF Valid
<1>5. Constructs' = Constructs
  BY DEF Constructs, ClientsLoaded
<1>6. env' = env
  BY DEF env
<1>7. \A d : Switched(d)' = Switched(d)
  BY <1>6 DEF Switched
<1> QED BY <1>4, <1>5, <1>7

LEMMA ValidateStep ==
  ASSUME IInv, Validate PROVE IInv'
<1> USE DEF IInv, Validate
<1>1. settings' = settings /\ env' = env
  BY SettingsFrame
<1>2. KeysLoaded' /\ OAuthLoaded'
  BY KeysAndOAuthStay
<1>3. Typed'
  BY <1>1 DEF Typed, TypeOK, Stages
<1>4. ConnectionsLoaded'
  BY <1>1, LoadedFrame DEF ConnectionsLoaded
<1>5. Decided'
  BY <1>1, LoadedFrame DEF Decided
<1> QED BY <1>2, <1>3, <1>4, <1>5

LEMMA ConstructStep ==
  ASSUME IInv, Construct PROVE IInv'
<1> USE DEF IInv, Construct
<1>1. settings' = settings /\ env' = env
  BY SettingsFrame
<1>2. KeysLoaded' /\ OAuthLoaded'
  BY KeysAndOAuthStay
<1>3. Typed'
  BY <1>1 DEF Typed, TypeOK, Stages
<1>4. ConnectionsLoaded'
  BY <1>1, LoadedFrame DEF ConnectionsLoaded
<1>5. Decided'
  BY <1>1, LoadedFrame DEF Decided
<1> QED BY <1>2, <1>3, <1>4, <1>5

\* Starts, for the next process.
LEMMA RestartStep ==
  ASSUME IInv, NEW s \in Alternatives(settings), Restart(s) PROVE IInv'
<1>1. s \in Settings
  BY SettingsAssumption DEF IInv, Typed
<1>2. /\ settings' \in Settings /\ stage' = "read"
      /\ keys' = FileKeys(settings') /\ oauth' = FileOAuth(settings')
      /\ connections' = FileConnections(settings')
  BY <1>1 DEF Restart
<1>3. IsSettings(settings')
  BY <1>2, SettingsAssumption
<1>4. Typed'
  BY <1>2, <1>3, FileTyped DEF Typed, TypeOK, Stages
<1> QED
  BY <1>2, <1>4 DEF IInv, KeysLoaded, OAuthLoaded, ConnectionsLoaded, Decided

LEMMA StutterStep ==
  ASSUME IInv, UNCHANGED configVars PROVE IInv'
<1> USE DEF IInv, configVars
<1>1. settings' = settings /\ env' = env /\ FirstName' = FirstName
  BY SettingsFrame DEF FirstName
<1>2. Typed'
  BY DEF Typed, TypeOK
<1>3. KeysLoaded' /\ OAuthLoaded'
  BY <1>1, SettingsFrame DEF KeysLoaded, OAuthLoaded
<1>4. ConnectionsLoaded'
  BY <1>1, LoadedFrame DEF ConnectionsLoaded
<1>5. Decided'
  BY <1>1, LoadedFrame DEF Decided
<1> QED BY <1>2, <1>3, <1>4, <1>5

LEMMA LoadSteps ==
  ASSUME IInv, LoadStep PROVE IInv'
BY PrincipalsStep, OAuthStep, ConnectionStep, MutationStep, ValidateStep,
   ConstructStep DEF LoadStep

\* The invariant, for every set of settings.
THEOREM Loaded == Spec => []IInv
<1>1. Init => IInv
  BY Starts DEF Init
<1>2. IInv /\ [Next]_configVars => IInv'
  BY LoadSteps, RestartStep, StutterStep DEF Next
<1> QED
  BY <1>1, <1>2, PTL DEF Spec
-----------------------------------------------------------------------------
(* The properties.                                                         *)

LEMMA AllowsAsWritten ==
  ASSUME IInv, stage = "serving", NEW c \in DOMAIN connections,
         NEW op \in Operations \cup {"ddl"}
  PROVE  /\ Allows(connections[c], op) => Permitted(c, op)
         /\ Permitted(c, op) => Allows(connections[c], op) \/ PaddedOnly(c, op)
<1> DEFINE d == FileConnections(settings)[c]
           own == {w \in d.policies : w.text = op}
<1>1. /\ d \in Databases /\ env \in Environments
      /\ "odd" \notin {env.ddl, env.dml}
      /\ connections[c] = Switched(Defaulted(d))
  <2>1. IsSettings(settings)
    BY DEF IInv, Typed, TypeOK
  <2>2. c \in DOMAIN FileConnections(settings)
    BY DEF IInv, ConnectionsLoaded
  <2> QED BY <2>1, <2>2, FileTyped, EnvTyped DEF IInv, ConnectionsLoaded
<1>2. /\ Permitted(c, op) <=>
           IF op = "ddl"
           THEN env.ddl = "on" \/ (env.ddl = "unset" /\ d.ddl # "off")
           ELSE env.dml # "off" /\ (d.policies = {} \/ own # {})
      /\ PaddedOnly(c, op) <=> own # {} /\ \A w \in own : w.form = "padded"
  BY DEF Permitted, PolicyFor, PaddedOnly
<1>5. \A w : w \in own <=> w \in d.policies /\ w.text = op
  OBVIOUS
<1> HIDE DEF d, own
<1>3. CASE op = "ddl"
  <2>1. Switched(Defaulted(d)).ddl = IF env.ddl = "unset" THEN Defaulted(d).ddl
                                                          ELSE env.ddl
    BY <1>1, DefaultedTyped DEF Switched, Databases
  <2>2. Defaulted(d).ddl = IF d.ddl = "unset" THEN "on" ELSE d.ddl
    BY <1>1 DEF Defaulted, Databases
  <2>3. env.ddl \in {"unset", "on", "off"} /\ d.ddl \in {"unset", "on", "off"}
    BY <1>1 DEF Environments, Switches, Databases
  <2> QED BY <1>1, <1>2, <1>3, <2>1, <2>2, <2>3 DEF Allows
<1>4. CASE op # "ddl"
  <2>1. Switched(Defaulted(d)).policies =
          CASE env.dml = "off" -> {}
            [] env.dml = "on" /\ Defaulted(d).policies = {} -> DefaultPolicies
            [] OTHER -> Defaulted(d).policies
    BY <1>1, DefaultedTyped DEF Switched, Databases
  <2>2. Defaulted(d).policies = IF d.policies = {} THEN DefaultPolicies
                                                   ELSE d.policies
    BY <1>1 DEF Defaulted, Databases
  <2>3. \E w \in DefaultPolicies : w.text = op /\ w.form # "padded"
    BY <1>4, DefaultPoliciesTyped
  <2>4. Allows(connections[c], op) <=>
          \E w \in Switched(Defaulted(d)).policies : w.text = op /\ w.form # "padded"
    BY <1>1, <1>4 DEF Allows
  <2>5. CASE env.dml = "off"
    BY <1>2, <1>4, <2>1, <2>4, <2>5
  <2>6. CASE env.dml # "off"
    <3>1. Switched(Defaulted(d)).policies = Defaulted(d).policies
      BY <2>1, <2>2, <2>3, <2>6
    <3>2. CASE d.policies = {}
      BY <1>2, <1>4, <2>2, <2>3, <2>4, <2>6, <3>1, <3>2
    <3>3. CASE d.policies # {}
      BY <1>2, <1>4, <1>5, <2>2, <2>4, <2>6, <3>1, <3>3
    <3> QED BY <3>2, <3>3
  <2> QED BY <2>5, <2>6
<1> QED BY <1>3, <1>4

LEMMA Switching == IInv => SwitchesPrevail
<1> SUFFICES ASSUME IInv, stage = "serving", NEW c \in DOMAIN connections,
                    NEW op \in Operations \cup {"ddl"}, NEW p \in Callers
             PROVE  /\ (\E tool \in Tools : MayRun(p, tool, c, op)) => Permitted(c, op)
                    /\ Permitted(c, op) /\ Has(p.rights, "admin")
                         => \/ MayRun(p, "execute_script", c, op)
                            \/ PaddedOnly(c, op)
  BY DEF SwitchesPrevail
<1>1. (\E tool \in Tools : MayRun(p, tool, c, op)) => Permitted(c, op)
  BY AllowsAsWritten DEF MayRun
<1>2. ASSUME Permitted(c, op), Has(p.rights, "admin"), ~PaddedOnly(c, op)
      PROVE  MayRun(p, "execute_script", c, op)
  <2>1. "admin" \in p.rights
    BY <1>2 DEF Has
  <2>2. Authorized(p, "execute_script", c)
    BY <2>1 DEF Authorized, Has, CanUse
  <2>3. op \in StatementsOf("execute_script")
    BY DEF StatementsOf
  <2> QED BY <1>2, <2>2, <2>3, AllowsAsWritten DEF MayRun
<1> QED BY <1>1, <1>2

\* Once roles are declared, keys are as RolesFollow says.
LEMMA KeysFollow ==
  ASSUME IInv, stage # "read"
  PROVE  /\ IsSettings(settings) /\ keys = DeclaredKeys /\ RolesFollow(keys)
         /\ FileKeys(settings) \in Seq(Keys)
         /\ \A r \in Roles : RoleDeclared(r) => \E i \in DOMAIN keys : keys[i] = RoleKey(r)
         /\ \A i \in DOMAIN keys :
              \/ i \in DOMAIN FileKeys(settings) /\ keys[i] = FileKeys(settings)[i]
              \/ \E r \in Roles : RoleDeclared(r) /\ keys[i] = RoleKey(r)
<1>1. IsSettings(settings) /\ keys = DeclaredKeys
  BY DEF IInv, KeysLoaded, Typed, TypeOK
<1>2. RolesFollow(keys)
  BY <1>1, DeclaredRoles
<1>3. \A r \in Roles : RoleDeclared(r) => \E i \in DOMAIN keys : keys[i] = RoleKey(r)
  BY <1>1, DeclaredPositions
<1> QED BY <1>1, <1>2, <1>3, FileTyped DEF RolesFollow

\* The key of a role is never wrong.
LEMMA RoleValid ==
  ASSUME IsSettings(settings), NEW r \in Roles, RoleDeclared(r)
  PROVE  /\ KeyValid(RoleKey(r)) /\ RoleKey(r).digest = ""
         /\ RoleKey(r).name = Plain(r) /\ DeclaresOrAdmin(RoleKey(r), "read")
<1> DEFINE t == Trimmed(env.roles[r])
<1>1. t.text # ""
  <2>1. env.roles[r] \in Written
    BY EnvTyped DEF Environments
  <2>2. t # Blank
    BY DEF RoleDeclared
  <2> QED BY <2>1, <2>2 DEF Trimmed, Written, Forms, Blank, Plain
<1>2. RoleScopes(r) \subseteq Scopes /\ "read" \in RoleScopes(r)
  BY DEF Roles, RoleScopes, Scopes
<1> HIDE DEF t
<1>3. /\ RoleKey(r).name = Plain(r) /\ RoleKey(r).digest = ""
      /\ RoleKey(r).token = t /\ RoleKey(r).connections = {"*"}
      /\ RoleKey(r).scopes = {Plain(sc) : sc \in RoleScopes(r)}
  BY DEF RoleKey, t
<1>4. \A x : Plain(x).text = x
  BY DEF Plain
<1>5. Plain("read") \in RoleKey(r).scopes
  BY <1>2, <1>3
<1>6. ASSUME NEW w \in RoleKey(r).scopes PROVE w.text \in Scopes
  <2>1. PICK sc \in RoleScopes(r) : w = Plain(sc)
    BY <1>3
  <2> QED BY <1>2, <1>4, <2>1
<1>7. r # ""
  BY DEF Roles
<1>8. KeyValid(RoleKey(r))
  BY <1>1, <1>3, <1>4, <1>5, <1>6, <1>7 DEF KeyValid
<1> QED BY <1>3, <1>4, <1>5, <1>8 DEF DeclaresOrAdmin, Declares

\* Keys are refused for what is written of those of the file.
LEMMA KeysJudged ==
  ASSUME IInv, stage # "read"
  PROVE  KeysValid <=> ~NoKey /\ ~WrongKey /\ ~SameKey
<1> DEFINE file == FileKeys(settings)
<1>1. /\ IsSettings(settings) /\ keys \in Seq(Keys) /\ file \in Seq(Keys)
      /\ \A i \in DOMAIN file : i \in DOMAIN keys /\ keys[i] = file[i]
      /\ \A i \in DOMAIN keys : i \notin DOMAIN file =>
           /\ \E r \in Roles : RoleDeclared(r) /\ keys[i] = RoleKey(r)
           /\ \A j \in DOMAIN keys : j # i => keys[j].name # keys[i].name
      /\ \A r \in Roles : RoleDeclared(r) => \E i \in DOMAIN keys : keys[i] = RoleKey(r)
  BY KeysFollow DEF RolesFollow
<1>2. /\ WrongKey <=> \E i \in DOMAIN file : ~KeyValid(file[i])
      /\ NoKey <=> file = << >> /\ ~\E r \in Roles : RoleDeclared(r)
      /\ SameKey <=> \E i, j \in DOMAIN file :
           /\ i # j
           /\ \/ file[i].name = file[j].name
              \/ file[i].digest = file[j].digest /\ file[i].digest # ""
  BY DEF WrongKey, NoKey, SameKey
<1> HIDE DEF file
<1>3. keys = << >> <=> NoKey
  <2>1. keys = << >> <=> DOMAIN keys = {}
    BY <1>1
  <2>2. file = << >> <=> DOMAIN file = {}
    BY <1>1
  <2> QED BY <1>1, <1>2, <2>1, <2>2
<1>4. \A i \in DOMAIN keys : i \notin DOMAIN file => KeyValid(keys[i]) /\ keys[i].digest = ""
  BY <1>1, RoleValid
<1>5. (\A i \in DOMAIN keys : KeyValid(keys[i])) <=> ~WrongKey
  BY <1>1, <1>2, <1>4
<1>6. SameKey <=> \E i, j \in DOMAIN keys :
        /\ i # j
        /\ \/ keys[i].name = keys[j].name
           \/ keys[i].digest = keys[j].digest /\ keys[i].digest # ""
  <2>1. ASSUME NEW i \in DOMAIN keys, NEW j \in DOMAIN keys, i # j,
               \/ keys[i].name = keys[j].name
               \/ keys[i].digest = keys[j].digest /\ keys[i].digest # ""
        PROVE  i \in DOMAIN file /\ j \in DOMAIN file
    <3>1. i \in DOMAIN file
      BY <1>1, <1>4, <2>1
    <3>2. j \in DOMAIN file
      BY <1>1, <1>4, <2>1
    <3> QED BY <3>1, <3>2
  <2> QED BY <1>1, <1>2, <2>1
<1> QED BY <1>3, <1>5, <1>6 DEF KeysValid

\* Roles are ordered by their scopes, so that some declared one has the fewest.
LEMMA LeastRole ==
  ASSUME NEW D \in SUBSET Roles, D # {}
  PROVE  /\ \E q \in D : \A p \in D : RoleScopes(q) \subseteq RoleScopes(p)
         /\ \A q, r \in Roles : RoleScopes(q) = RoleScopes(r) => q = r
<1>1. /\ RoleScopes("writer") \subseteq RoleScopes("ddl")
      /\ RoleScopes("ddl") \subseteq RoleScopes("admin")
      /\ "ddl" \notin RoleScopes("writer") /\ "ddl" \in RoleScopes("ddl")
      /\ "admin" \notin RoleScopes("ddl") /\ "admin" \in RoleScopes("admin")
  BY DEF RoleScopes, Scopes
<1>2. \A q \in Roles : q = "writer" \/ q = "ddl" \/ q = "admin"
  BY DEF Roles
<1>3. CASE "writer" \in D
  BY <1>1, <1>2, <1>3
<1>4. CASE "writer" \notin D /\ "ddl" \in D
  BY <1>1, <1>2, <1>4
<1>5. CASE "writer" \notin D /\ "ddl" \notin D
  BY <1>1, <1>2, <1>5
<1>6. \A q, r \in Roles : RoleScopes(q) = RoleScopes(r) => q = r
  BY <1>1, <1>2
<1> QED BY <1>3, <1>4, <1>5, <1>6

\* If no key is wrong, the principal is the key that is meant.
LEMMA PrincipalMeant ==
  ASSUME IInv, stage \notin {"read", "principals"}, KeysValid
  PROVE  /\ \A i \in DOMAIN keys : keys[i].name = oauth.principal => Meant = {keys[i]}
         /\ Meant # {} => \E i \in DOMAIN keys : keys[i].name = oauth.principal
<1> DEFINE file == FileKeys(settings)
           declared == {r \in Roles : RoleDeclared(r)}
           least == {q \in declared : \A p \in declared :
                       RoleScopes(q) \subseteq RoleScopes(p)}
<1>1. /\ IsSettings(settings) /\ keys \in Seq(Keys) /\ file \in Seq(Keys)
      /\ \A i \in DOMAIN file : i \in DOMAIN keys /\ keys[i] = file[i]
      /\ \A i \in DOMAIN keys :
           \/ i \in DOMAIN file /\ keys[i] = file[i]
           \/ \E r \in Roles : RoleDeclared(r) /\ keys[i] = RoleKey(r)
      /\ \A r \in Roles : RoleDeclared(r) => \E i \in DOMAIN keys : keys[i] = RoleKey(r)
  BY KeysFollow DEF RolesFollow
<1>2. oauth.principal = IF WrittenPrincipal = Blank THEN FirstName
                                                    ELSE WrittenPrincipal
  BY DEF IInv, OAuthLoaded
<1>3. keys # << >> /\ \A i, j \in DOMAIN keys : keys[i].name = keys[j].name => i = j
  BY DEF KeysValid
<1>4. 1 \in DOMAIN keys
  BY <1>1, <1>3
<1>5. WrittenPrincipal = Blank => oauth.principal = keys[1].name
  BY <1>2, <1>3 DEF FirstName
<1>6. CASE WrittenPrincipal # Blank
  <2>1. Meant = {k \in {file[i] : i \in DOMAIN file} \cup
                       {RoleKey(r) : r \in declared} : k.name = WrittenPrincipal}
    BY <1>6 DEF Meant
  <2> HIDE DEF file
  <2>2. \A k : k \in Meant <=> \E i \in DOMAIN keys : k = keys[i] /\ k.name = WrittenPrincipal
    BY <1>1, <2>1
  <2>3. oauth.principal = WrittenPrincipal
    BY <1>2, <1>6
  <2>4. ASSUME NEW i \in DOMAIN keys, keys[i].name = oauth.principal
        PROVE  Meant = {keys[i]}
    <3>1. \A k : k \in Meant <=> k = keys[i]
      BY <1>3, <2>2, <2>3, <2>4
    <3> QED BY <3>1
  <2> QED BY <2>2, <2>3, <2>4
<1>7. CASE WrittenPrincipal = Blank /\ file # << >>
  <2>1. Meant = {file[1]}
    BY <1>7 DEF Meant
  <2> HIDE DEF file
  <2>2. keys[1] = file[1]
    BY <1>1, <1>7
  <2> QED BY <1>3, <1>4, <1>5, <1>7, <2>1, <2>2
<1>8. CASE WrittenPrincipal = Blank /\ file = << >>
  <2>1. Meant = {RoleKey(r) : r \in least}
    BY <1>8 DEF Meant
  <2>2. PICK s \in Roles : RoleDeclared(s) /\ keys[1] = RoleKey(s)
    BY <1>1, <1>4, <1>8
  <2>3. \A q, r \in Roles : RoleKey(q) = RoleKey(r) => q = r
    BY DEF RoleKey, Plain
  <2>4. ASSUME NEW r \in Roles, RoleDeclared(r)
        PROVE  RoleScopes(s) \subseteq RoleScopes(r)
    <3>1. PICK p \in DOMAIN keys :
            \A i \in DOMAIN keys : i <= p =>
              \/ i \in DOMAIN file
              \/ \E q \in Roles : /\ keys[i] = RoleKey(q)
                                  /\ RoleScopes(q) \subseteq RoleScopes(r)
      BY <1>1, <2>4, KeysFollow, DeclaredPositions
    <3>2. 1 <= p /\ 1 \notin DOMAIN file
      BY <1>1, <1>8
    <3> HIDE DEF file
    <3>3. PICK q \in Roles : /\ keys[1] = RoleKey(q)
                             /\ RoleScopes(q) \subseteq RoleScopes(r)
      BY <1>4, <3>1, <3>2
    <3> QED BY <2>2, <2>3, <3>3
  <2>5. declared \in SUBSET Roles /\ s \in declared
    BY <2>2
  <2>6. \A q \in least : q = s
    <3> SUFFICES ASSUME NEW q \in least PROVE q = s
      OBVIOUS
    <3>1. q \in Roles /\ RoleScopes(q) \subseteq RoleScopes(s) /\ RoleDeclared(q)
      BY <2>5
    <3>2. RoleScopes(q) = RoleScopes(s)
      BY <2>4, <3>1
    <3> QED BY <2>2, <2>5, <3>1, <3>2, LeastRole
  <2>7. s \in least
    BY <2>4, <2>5
  <2> HIDE DEF least
  <2>8. Meant = {keys[1]}
    BY <2>1, <2>2, <2>6, <2>7
  <2> QED BY <1>3, <1>4, <1>5, <1>8, <2>8
<1> QED BY <1>6, <1>7, <1>8

\* What the scopes that were chosen ask of a key.
LEMMA ScopesJudged ==
  ASSUME NEW k
  PROVE  (\E sc \in EffectiveScopes : sc \notin Scopes \/ ~DeclaresOrAdmin(k, sc))
         <=> \/ \E list \in WrittenLists : \E sc \in list \ {""} :
                  sc \notin Scopes \/ ~DeclaresOrAdmin(k, sc)
             \/ {} \in WrittenLists /\ ~DeclaresOrAdmin(k, "read")
<1> DEFINE Bad(sc) == sc \notin Scopes \/ ~DeclaresOrAdmin(k, sc)
<1>1. Bad("read") <=> ~DeclaresOrAdmin(k, "read")
  BY DEF Scopes
<1>2. ASSUME NEW v, NEW f
      PROVE  (\E sc \in ScopeList(v, f) : Bad(sc)) <=>
               \/ \E sc \in Listed(v, f) \ {""} : Bad(sc)
               \/ Listed(v, f) = {} /\ Bad("read")
  <2> DEFINE list == Listed(v, f)
  <2>1. ScopeList(v, f) = (IF list = {} THEN {"read"} ELSE list) \ {""}
    BY DEF ScopeList
  <2> HIDE DEF list, Bad
  <2>2. CASE list = {}
    BY <2>1, <2>2 DEF list
  <2>3. CASE list # {}
    BY <2>1, <2>3 DEF list
  <2> QED BY <2>2, <2>3
<1> HIDE DEF Bad
<1>3. /\ EffectiveScopes = ScopeList(env.default, FileOAuth(settings).default) \cup
                           ScopeList(env.base, FileOAuth(settings).base)
      /\ WrittenLists = {Listed(env.default, FileOAuth(settings).default),
                         Listed(env.base, FileOAuth(settings).base)}
  BY DEF EffectiveScopes, WrittenLists
<1>4. (\E sc \in EffectiveScopes : Bad(sc)) <=>
        \/ \E list \in WrittenLists : \E sc \in list \ {""} : Bad(sc)
        \/ {} \in WrittenLists /\ Bad("read")
  BY <1>2, <1>3
<1> QED BY <1>1, <1>4 DEF Bad

\* OAuth is refused for what is written of it.
LEMMA OAuthJudged ==
  ASSUME IInv, stage \notin {"read", "principals"}, KeysValid
  PROVE  OAuthValid <=> ~WrongOAuth
<1>1. /\ \A i \in DOMAIN keys : keys[i].name = oauth.principal => Meant = {keys[i]}
      /\ Meant # {} => \E i \in DOMAIN keys : keys[i].name = oauth.principal
  BY PrincipalMeant
<1>2. oauth.default \cup oauth.base = EffectiveScopes
  BY DEF IInv, OAuthLoaded
<1>3. CASE Meant = {}
  BY <1>1, <1>3 DEF OAuthValid, WrongOAuth
<1>4. CASE Meant # {}
  <2>1. PICK i \in DOMAIN keys : keys[i].name = oauth.principal
    BY <1>1, <1>4
  <2>2. Meant = {keys[i]}
    BY <1>1, <2>1
  <2>3. \A j \in DOMAIN keys : keys[j].name = oauth.principal => j = i
    BY <2>1 DEF KeysValid
  <2>4. OAuthValid <=> /\ settings.complete
                       /\ ~\E sc \in EffectiveScopes :
                             sc \notin Scopes \/ ~DeclaresOrAdmin(keys[i], sc)
    BY <1>2, <2>1, <2>3 DEF OAuthValid
  <2>5. AsksTooMuch <=> \E list \in WrittenLists : \E sc \in list \ {""} :
                          sc \notin Scopes \/ ~DeclaresOrAdmin(keys[i], sc)
    BY <2>2 DEF AsksTooMuch
  <2>6. LacksDefault <=> {} \in WrittenLists /\ ~DeclaresOrAdmin(keys[i], "read")
    <3>1. CASE i \in DOMAIN FileKeys(settings)
      <4>1. keys[i] = FileKeys(settings)[i]
        BY <3>1, KeysFollow DEF RolesFollow
      <4> QED BY <2>2, <3>1, <4>1 DEF LacksDefault
    <3>2. CASE i \notin DOMAIN FileKeys(settings)
      <4>1. PICK r \in Roles : RoleDeclared(r) /\ keys[i] = RoleKey(r)
        BY <3>2, KeysFollow
      <4>2. DeclaresOrAdmin(keys[i], "read")
        BY <4>1, KeysFollow, RoleValid
      <4> QED BY <2>2, <4>2 DEF LacksDefault
    <3> QED BY <3>1, <3>2
  <2>7. (\E sc \in EffectiveScopes : sc \notin Scopes \/ ~DeclaresOrAdmin(keys[i], sc))
        <=> AsksTooMuch \/ LacksDefault
    BY <2>5, <2>6, ScopesJudged
  <2> QED BY <1>4, <2>4, <2>7 DEF WrongOAuth
<1> QED BY <1>3, <1>4

\* The constructors fail for a principal written with blanks, or the clients.
LEMMA ConstructsJudged ==
  ASSUME IInv, stage \notin {"read", "principals"}, Valid
  PROVE  Constructs <=> ~Unconstructible
<1> DEFINE file == FileKeys(settings)
<1>1. oauth.enabled <=> WantsOAuth
  BY DEF IInv, OAuthLoaded
<1>2. CASE ~WantsOAuth
  BY <1>1, <1>2 DEF Constructs, Unconstructible
<1>3. CASE WantsOAuth
  <2>1. PICK i \in DOMAIN keys : keys[i].name = oauth.principal
    BY <1>1, <1>3 DEF Valid, OAuthValid
  <2>2. Meant = {keys[i]}
    BY <2>1, PrincipalMeant DEF Valid
  <2> DEFINE n == keys[i].name
  <2>3. Unconstructible <=>
          \/ ~settings.clients
          \/ n.form = "padded" /\ \A j \in DOMAIN file : file[j].name # Trimmed(n)
    BY <1>3, <2>2 DEF Unconstructible
  <2>4. Constructs <=> /\ \E j \in DOMAIN keys : keys[j].name = Trimmed(n)
                       /\ settings.clients
    BY <1>1, <1>3, <2>1 DEF Constructs, ClientsLoaded
  <2>5. CASE n.form # "padded"
    <3>1. Trimmed(n) = n
      BY <2>5 DEF Trimmed
    <3> QED BY <2>3, <2>4, <2>5, <3>1
  <2>6. CASE n.form = "padded"
    <3>1. /\ \A j \in DOMAIN file : j \in DOMAIN keys /\ keys[j] = file[j]
          /\ \A j \in DOMAIN keys :
               \/ j \in DOMAIN file /\ keys[j] = file[j]
               \/ \E r \in Roles : RoleDeclared(r) /\ keys[j].name = Plain(r)
      BY KeysFollow, RoleValid DEF RolesFollow
    <3>2. \A x : Plain(x).form = "plain" /\ Plain(x).text = x
      BY DEF Plain
    <3> HIDE DEF file
    <3>3. i \in DOMAIN file /\ file[i].name = n
      BY <2>6, <3>1, <3>2
    <3>4. Trimmed(n) = Plain(n.text)
      BY <2>6 DEF Trimmed
    <3>5. ASSUME NEW r \in Roles, RoleDeclared(r) PROVE Plain(r) # Trimmed(n)
      <4>1. ~HasName(file, r)
        BY <3>5 DEF RoleDeclared, file
      <4>2. n.text # r
        BY <3>3, <4>1 DEF HasName
      <4> QED BY <3>2, <3>4, <4>2
    <3>6. (\E j \in DOMAIN keys : keys[j].name = Trimmed(n)) <=>
            \E j \in DOMAIN file : file[j].name = Trimmed(n)
      BY <3>1, <3>5
    <3> QED BY <2>3, <2>4, <2>6, <3>6
  <2> QED BY <2>5, <2>6
<1> QED BY <1>2, <1>3

\* Load fails if, and only if, it has one of the reasons.
LEMMA ValidJudged ==
  ASSUME IInv, stage \notin {"read", "principals"}
  PROVE  Valid \/ "odd" \in {env.ddl, env.dml} <=> ~Refusable \/ "odd" \in {env.ddl, env.dml}
<1>1. DOMAIN connections = DOMAIN FileConnections(settings)
  BY DEF IInv, ConnectionsLoaded
<1>2. oauth.enabled <=> WantsOAuth
  BY DEF IInv, OAuthLoaded
<1>3. KeysValid <=> ~NoKey /\ ~WrongKey /\ ~SameKey
  BY KeysJudged
<1>4. KeysValid => (OAuthValid <=> ~WrongOAuth)
  BY OAuthJudged
<1> QED BY <1>1, <1>2, <1>3, <1>4 DEF Valid, Refusable

LEMMA Refusing == IInv => StartsUnlessReason
<1> SUFFICES ASSUME IInv PROVE StartsUnlessReason
  OBVIOUS
<1> USE DEF IInv, Decided
<1>1. ASSUME stage = "refused" PROVE Refusable
  <2>1. CASE "odd" \in {env.ddl, env.dml}
    BY <2>1 DEF Refusable
  <2>2. CASE "odd" \notin {env.ddl, env.dml}
    BY <1>1, <2>2, ValidJudged
  <2> QED BY <2>1, <2>2
<1>2. ASSUME stage \in {"accepted", "serving", "failed"}
      PROVE  Valid /\ ~Refusable
  <2>1. "odd" \notin {env.ddl, env.dml}
    BY <1>2 DEF ConnectionsLoaded
  <2> QED BY <1>2, <2>1, ValidJudged
<1>3. stage = "failed" => Unconstructible
  BY <1>2, ConstructsJudged
<1>4. stage = "serving" => ~Unconstructible
  BY <1>2, ConstructsJudged
<1> QED BY <1>1, <1>2, <1>3, <1>4 DEF StartsUnlessReason

LEMMA LeastIndex ==
  ASSUME NEW S \in SUBSET Nat, S # {}
  PROVE  \E i \in S : \A j \in S : i <= j
<1>1. PICK i \in S : \A j \in S : <<j, i>> \notin OpToRel(<, Nat)
  BY NatLessThanWellFounded, WFMin
<1>2. \A j \in S : ~(j < i)
  BY <1>1 DEF OpToRel
<1> QED BY <1>2

\* A token that is somebody's is answered by the first who has it.
LEMMA FirstAnswers ==
  ASSUME keys \in Seq(Keys), NEW t, t # Blank, Trimmed(t) = t,
         NEW i \in DOMAIN keys, Secret(keys[i]) = t
  PROVE  \E j \in DOMAIN keys : j <= i /\ AuthenticateHeader(t, j)
<1> DEFINE S == {j \in DOMAIN keys : Secret(keys[j]) = t}
<1>1. i \in S /\ S \in SUBSET Nat
  OBVIOUS
<1>2. PICK j \in S : \A k \in S : j <= k
  BY <1>1, LeastIndex
<1>3. j \in DOMAIN keys /\ j <= i /\ Secret(keys[j]) = t
  BY <1>1, <1>2
<1>4. \A k \in DOMAIN keys : k < j => Secret(keys[k]) # t
  BY <1>1, <1>2
<1> QED BY <1>3, <1>4 DEF AuthenticateHeader

LEMMA Answering == IInv => TokensAnswered
<1> DEFINE written == FileKeys(settings)
<1> SUFFICES ASSUME IInv, stage = "serving"
             PROVE  /\ \A i \in DOMAIN written :
                         \/ Secret(written[i]).form = "padded"
                         \/ \E j \in DOMAIN written :
                              j <= i /\ AuthenticateHeader(Secret(written[i]), j)
                    /\ \A r \in Roles : RoleDeclared(r) =>
                         \E i \in DOMAIN keys :
                           /\ AuthenticateHeader(env.roles[r], i)
                           /\ \/ i \in DOMAIN written
                              \/ Rights(keys[i]) \subseteq RoleScopes(r)
  BY DEF TokensAnswered
<1>1. /\ keys = DeclaredKeys /\ keys \in Seq(Keys) /\ IsSettings(settings)
      /\ \A i \in DOMAIN keys : KeyValid(keys[i])
  BY DEF IInv, KeysLoaded, Typed, TypeOK, Decided, Valid, KeysValid
<1>2. written \in Seq(Keys)
  BY <1>1, FileTyped
<1> HIDE DEF written
<1>3. ASSUME NEW i \in DOMAIN written, Secret(written[i]).form # "padded"
      PROVE  \E j \in DOMAIN written :
               j <= i /\ AuthenticateHeader(Secret(written[i]), j)
  <2> DEFINE t == Secret(written[i])
  <2>1. i \in DOMAIN keys /\ keys[i] = written[i]
    BY <1>1, DeclaredFacts DEF written
  <2>2. t.text # ""
    BY <1>1, <2>1 DEF KeyValid, Secret, Plain
  <2>3. t # Blank /\ Trimmed(t) = t
    <3>1. Blank.text = ""
      BY DEF Blank, Plain
    <3> QED BY <1>3, <2>2, <3>1 DEF Trimmed
  <2>4. PICK j \in DOMAIN keys : j <= i /\ AuthenticateHeader(t, j)
    BY <1>1, <2>1, <2>3, FirstAnswers
  <2>5. j \in DOMAIN written
    BY <1>1, <1>2, <2>4
  <2> QED BY <2>4, <2>5
<1>4. ASSUME NEW r \in Roles, RoleDeclared(r)
      PROVE  \E i \in DOMAIN keys :
               /\ AuthenticateHeader(env.roles[r], i)
               /\ i \in DOMAIN written \/ Rights(keys[i]) \subseteq RoleScopes(r)
  <2> DEFINE t == Trimmed(env.roles[r])
  <2>1. t # Blank /\ Trimmed(t) = t
    BY <1>4 DEF RoleDeclared, Trimmed, Plain
  <2>2. PICK p \in DOMAIN keys :
          /\ keys[p] = RoleKey(r)
          /\ \A i \in DOMAIN keys : i <= p =>
               \/ i \in DOMAIN written
               \/ \E q \in Roles : /\ keys[i] = RoleKey(q)
                                   /\ RoleScopes(q) \subseteq RoleScopes(r)
    BY <1>1, <1>4, DeclaredPositions DEF written
  <2>3. Secret(keys[p]) = t
    <3>1. RoleKey(r).digest = "" /\ RoleKey(r).token = t
      BY DEF RoleKey
    <3> HIDE DEF t
    <3> QED BY <2>2, <3>1 DEF Secret
  <2>4. PICK i \in DOMAIN keys : i <= p /\ AuthenticateHeader(t, i)
    BY <1>1, <2>1, <2>3, FirstAnswers
  <2>5. AuthenticateHeader(env.roles[r], i)
    BY <2>1, <2>4 DEF AuthenticateHeader
  <2>6. \A q \in Roles : Rights(RoleKey(q)) \subseteq RoleScopes(q)
    BY DEF Rights, RoleKey, Plain
  <2> QED BY <2>2, <2>4, <2>5, <2>6
<1> QED BY <1>3, <1>4

\* The key that OAuth clients get their rights from.
LEMMA ThePrincipal ==
  ASSUME IInv, stage = "serving", oauth.enabled
  PROVE  /\ \A sc \in oauth.default \cup oauth.base :
              sc \in Scopes /\ DeclaresOrAdmin(KeyNamed(oauth.principal), sc)
         /\ KeyNamed(oauth.principal).scopes \subseteq Written
<1> DEFINE j == CHOOSE i \in DOMAIN keys : keys[i].name = oauth.principal
<1>1. Valid
  BY DEF IInv, Decided
<1>2. PICK i \in DOMAIN keys :
        /\ keys[i].name = oauth.principal
        /\ \A sc \in oauth.default \cup oauth.base :
             sc \in Scopes /\ DeclaresOrAdmin(keys[i], sc)
  BY <1>1 DEF Valid, OAuthValid
<1>3. j \in DOMAIN keys /\ keys[j].name = oauth.principal
  BY <1>2
<1>4. i = j
  BY <1>1, <1>2, <1>3 DEF Valid, KeysValid
<1>5. KeyNamed(oauth.principal) = keys[i]
  BY <1>4 DEF KeyNamed
<1>6. keys[i] \in Keys
  BY DEF IInv, Typed, TypeOK
<1> QED BY <1>2, <1>5, <1>6 DEF Keys

\* What is declared without blanks can be granted.
LEMMA DeclaredGrantable ==
  ASSUME NEW S, S # {}, ~PaddedScope,
         \A sc \in S : sc \in Scopes /\ DeclaresOrAdmin(KeyNamed(oauth.principal), sc)
  PROVE  Grantable(S)
<1> DEFINE k == KeyNamed(oauth.principal)
<1>1. \A sc : Declares(k, sc) => sc \in Rights(k)
  BY DEF Declares, Rights, PaddedScope
<1>2. \A sc \in S : Has(Rights(k), sc)
  BY <1>1 DEF DeclaresOrAdmin, Has
<1> QED BY <1>2 DEF Grantable

LEMMA Consenting == IInv => DefaultConsentWorks
BY ThePrincipal, DeclaredGrantable DEF DefaultConsentWorks

LEMMA ToolScopes ==
  ASSUME NEW tool \in Tools
  PROVE  /\ RequiredScopes(tool) \subseteq RegisteredScopes(tool)
         /\ RegisteredScopes(tool) \subseteq Scopes
<1>1. CASE tool \in ReadTools
  BY <1>1 DEF RequiredScopes, RegisteredScopes, Scopes, ReadTools
<1>2. CASE tool = "list_connections"
  BY <1>2 DEF RequiredScopes, RegisteredScopes, Scopes, ReadTools
<1>3. CASE tool \in {"validate_dml", "execute_dml"}
  BY <1>3 DEF RequiredScopes, RegisteredScopes, Scopes, ReadTools
<1>4. CASE tool \in {"validate_ddl", "execute_ddl"}
  BY <1>4 DEF RequiredScopes, RegisteredScopes, Scopes, ReadTools
<1>5. CASE tool = "execute_script"
  BY <1>5 DEF RequiredScopes, RegisteredScopes, Scopes, ReadTools
<1> QED BY <1>1, <1>2, <1>3, <1>4, <1>5 DEF Tools

LEMMA Advertising == IInv => AdvertisedWork
<1> SUFFICES ASSUME IInv, stage = "serving", oauth.enabled,
                    NEW tool \in Tools, Advertised(tool) # {}, ~PaddedScope
             PROVE  /\ Grantable(Advertised(tool))
                    /\ \A c \in DOMAIN connections :
                         CanUse(TokenCaller({}), c)
                         => Authorized(TokenCaller(Advertised(tool)), tool, c)
  BY DEF AdvertisedWork
<1>1. /\ Advertised(tool) = RegisteredScopes(tool)
      /\ \A sc \in RegisteredScopes(tool) :
           DeclaresOrAdmin(KeyNamed(oauth.principal), sc)
  BY DEF Advertised
<1>2. Grantable(Advertised(tool))
  BY <1>1, ToolScopes, DeclaredGrantable
<1>3. ASSUME NEW c \in DOMAIN connections, CanUse(TokenCaller({}), c)
      PROVE  Authorized(TokenCaller(Advertised(tool)), tool, c)
  <2>1. {"*", c} \cap KeyNamed(oauth.principal).connections # {}
    BY <1>3 DEF CanUse, TokenCaller, Has
  <2>2. CanUse(TokenCaller(Advertised(tool)), c)
    BY <2>1 DEF CanUse, TokenCaller
  <2>3. \A sc \in RequiredScopes(tool) : Has(TokenCaller(Advertised(tool)).rights, sc)
    BY <1>1, ToolScopes DEF Has, TokenCaller
  <2> QED BY <2>2, <2>3 DEF Authorized
<1> QED BY <1>2, <1>3

\* Types, at every stage of loading (config.go:158-216).
THEOREM TypeCorrect == Spec => []TypeOK
<1>1. IInv => TypeOK
  BY DEF IInv, Typed
<1> QED BY <1>1, Loaded, PTL

\* Whatever is written and whoever calls, the switches and policies have the
\* last word on changes of a database (config.go:316-383).
THEOREM LastWord == Spec => []SwitchesPrevail
BY Switching, Loaded, PTL

\* Whether a start fails, in Load or in the constructors, is what the settings
\* alone say: for a reason in them, and whenever there is one
\* (config.go:158-216, 440-508, 528-716; oauth.go:88-138, 783-806).
THEOREM Reasons == Spec => []StartsUnlessReason
BY Refusing, Loaded, PTL

\* Who answers to a token, for every way to share tokens among keys of the
\* file and roles (config.go:495-508, authn.go:38-92).
THEOREM Answers == Spec => []TokensAnswered
BY Answering, Loaded, PTL

\* The scopes of the configuration can be consented to (oauth.go:696-713).
THEOREM DefaultConsent == Spec => []DefaultConsentWorks
BY Consenting, Loaded, PTL

\* A tool can be used with the scopes it advertises (server.go:127-170).
THEOREM Advertisement == Spec => []AdvertisedWork
BY Advertising, Loaded, PTL

-----------------------------------------------------------------------------
(* Sources.                                                                *)

\* The arithmetic of whole seconds.
LEMMA Seconds ==
  ASSUME NEW t \in Nat
  PROVE  /\ Unix(t) \in Nat
         /\ TicksPerSecond * Unix(t) <= t
         /\ t < TicksPerSecond * Unix(t) + TicksPerSecond
BY SourcesAssumption, Z3T(30) DEF Unix

LEMMA SecondsOrdered ==
  ASSUME NEW t \in Nat, NEW u \in Nat, t <= u
  PROVE  Unix(t) <= Unix(u)
<1> DEFINE d == TicksPerSecond
<1>1. d \in Nat \ {0}
  BY SourcesAssumption
<1>2. \A x, y \in Nat : x > y => d * x >= d * y + d
  <2> SUFFICES ASSUME NEW x \in Nat, NEW y \in Nat, x > y
               PROVE  d * x >= d * y + d
    OBVIOUS
  <2> HIDE DEF d
  <2>1. PICK e \in Nat : x = y + 1 + e
    <3>1. x - y - 1 \in Nat /\ x = y + 1 + (x - y - 1)
      OBVIOUS
    <3> QED BY <3>1
  <2>2. d * (y + 1 + e) = d * y + d + d * e /\ d * e \in Nat
    BY <1>1
  <2>3. d * y \in Nat
    BY <1>1
  <2> QED BY <1>1, <2>1, <2>2, <2>3
<1>3. ASSUME Unix(t) > Unix(u) PROVE FALSE
  <2> DEFINE a == Unix(t)
             b == Unix(u)
  <2>1. a \in Nat /\ b \in Nat /\ d * a <= t /\ u < d * b + d
    BY Seconds
  <2>2. d * a >= d * b + d
    BY <1>2, <1>3, <2>1
  <2>3. d * a \in Nat /\ d * b \in Nat
    BY <1>1, <2>1
  <2> HIDE DEF a, b, d
  <2> QED BY <1>1, <2>1, <2>2, <2>3
<1> QED BY <1>3, Seconds

-----------------------------------------------------------------------------
(* The configuration below.                                                *)

LEMMA ConfigStep ==
  ASSUME SourcesNext
  PROVE  LoadStep \/ (\E s \in Alternatives(settings) : Restart(s)) \/ UNCHANGED configVars
BY DEF SourcesNext, Ask, Follow, Answer, NotFound, Tick, Loading, Replace

\* The invariant of Configuration (config.go:158-216).
THEOREM ConfigLoaded == SourcesSpec => []IInv
<1>1. SourcesInit => IInv
  BY Starts DEF SourcesInit, Init
<1>2. IInv /\ [SourcesNext]_sourceVars => IInv'
  <2> SUFFICES ASSUME IInv, [SourcesNext]_sourceVars PROVE IInv'
    OBVIOUS
  <2>1. CASE SourcesNext
    BY <2>1, ConfigStep, LoadSteps, RestartStep, StutterStep
  <2>2. CASE UNCHANGED sourceVars
    <3>1. UNCHANGED configVars
      BY <2>2 DEF sourceVars
    <3> QED BY <3>1, StutterStep
  <2> QED BY <2>1, <2>2
<1> QED BY <1>1, <1>2, PTL DEF SourcesSpec

\* What is proved of the configuration holds while source URLs are used.
THEOREM ConfigurationKept ==
  SourcesSpec => [](/\ StartsUnlessReason /\ SwitchesPrevail /\ TokensAnswered
                    /\ DefaultConsentWorks /\ AdvertisedWork)
<1>1. IInv => /\ StartsUnlessReason /\ SwitchesPrevail /\ TokensAnswered
              /\ DefaultConsentWorks /\ AdvertisedWork
  BY Refusing, Switching, Answering, Consenting, Advertising
<1> QED BY <1>1, ConfigLoaded, PTL

-----------------------------------------------------------------------------
(* Source URLs.                                                            *)

URLs == [object: Objects, expires: Nat, key: Strings, issued: Nat, ttl: Nat \ {0}]

\* A URL carries the end of its TTL in whole seconds, and was signed with some
\* key, not later than now.
Signed ==
  \A u \in urls :
    u.expires = Unix(u.issued + u.ttl) /\ u.issued <= now /\ u.key # ""

LinkInv ==
  /\ now \in 0..MaxTime
  /\ urls \subseteq URLs
  /\ inflight \subseteq Objects
  /\ granted \subseteq Objects
  /\ Signed
  /\ OnlyGranted

LEMMA URLTyped ==
  ASSUME LinkInv, NEW u \in urls
  PROVE  /\ u.expires \in Nat /\ u.issued \in Nat /\ u.ttl \in Nat
         /\ u.expires = Unix(u.issued + u.ttl) /\ u.issued <= now /\ u.key # ""
         /\ now \in Nat
<1>1. u \in URLs
  BY DEF LinkInv
<1>2. now \in Nat
  BY SourcesAssumption DEF LinkInv
<1>3. u.expires \in Nat /\ u.issued \in Nat /\ u.ttl \in Nat
  BY <1>1 DEF URLs
<1> QED BY <1>2, <1>3 DEF LinkInv, Signed

LEMMA NewURL ==
  ASSUME IInv, now \in Nat, NEW o \in Objects
  PROVE  SourceURL(o) \in URLs /\ SourceURL(o).expires = Unix(now + TTL)
<1>1. TTL \in Nat \ {0} /\ SigningKey \in Strings
  BY DEF IInv, Typed, TypeOK, IsSettings, TTL, SigningKey
<1>2. Unix(now + TTL) \in Nat
  BY <1>1, Seconds
<1> QED BY <1>1, <1>2 DEF SourceURL, URLs

LEMMA LinkStep ==
  ASSUME IInv, LinkInv, [SourcesNext]_sourceVars PROVE LinkInv'
<1> USE DEF LinkInv, OnlyGranted
<1>0. now \in Nat /\ MaxTime \in Nat
  BY SourcesAssumption
<1>1. ASSUME NEW p \in Callers, NEW o \in Objects, Ask(p, o) PROVE LinkInv'
  BY <1>1 DEF Ask, Signed
<1>2. ASSUME NEW u \in urls, NEW o \in Objects, Follow(u, o) PROVE LinkInv'
  BY <1>2 DEF Follow, ValidCitation, Signed
<1>3. ASSUME NEW o \in Objects, Answer(o) PROVE LinkInv'
  <2>1. now' = now /\ inflight' = inflight \ {o} /\ granted' = granted /\ o \in granted
    BY <1>3 DEF Answer
  <2>2. /\ urls' \subseteq urls \cup {SourceURL(o)}
        /\ urls' # urls => SourceURL(o).key # ""
    BY <1>3 DEF Answer, SourceURL
  <2>3. /\ SourceURL(o) \in URLs
        /\ SourceURL(o).expires = Unix(SourceURL(o).issued + SourceURL(o).ttl)
        /\ SourceURL(o).issued = now /\ SourceURL(o).object = o
    BY <1>0, NewURL DEF SourceURL
  <2> DEFINE new == SourceURL(o)
  <2> HIDE DEF LinkInv, OnlyGranted, new
  <2>4. ASSUME NEW u \in urls'
        PROVE  u.expires = Unix(u.issued + u.ttl) /\ u.issued <= now
    <3>1. CASE u \in urls
      BY <3>1, URLTyped
    <3>2. CASE u = new
      BY <1>0, <2>3, <3>2 DEF new
    <3> QED BY <2>2, <3>1, <3>2 DEF new
  <2>5. ASSUME NEW u \in urls' PROVE u.key # ""
    <3>1. CASE u \in urls
      BY <3>1, URLTyped
    <3>2. CASE u \notin urls
      BY <2>2, <3>2
    <3> QED BY <3>1, <3>2
  <2>6. \A u \in urls' : u.expires = Unix(u.issued + u.ttl) /\ u.issued <= now'
    BY <2>1, <2>4
  <2>7. Signed'
    BY <2>5, <2>6 DEF Signed, Unix
  <2> QED BY <2>1, <2>2, <2>3, <2>7 DEF LinkInv, OnlyGranted
<1>4. ASSUME NEW o \in Objects, NotFound(o) PROVE LinkInv'
  BY <1>4 DEF NotFound, Signed
<1>5. ASSUME Tick PROVE LinkInv'
  <2>1. /\ now' = now + 1 /\ now' \in 0..MaxTime
        /\ urls' = urls /\ inflight' = inflight /\ granted' = granted
    BY <1>0, <1>5 DEF Tick
  <2>2. ASSUME NEW u \in urls PROVE u.issued <= now'
    <3>1. u.issued \in Nat /\ u.issued <= now
      BY URLTyped
    <3> HIDE DEF LinkInv
    <3> QED BY <1>0, <2>1, <3>1
  <2>4. Signed'
    BY <2>1, <2>2 DEF Signed, Unix
  <2> QED BY <2>1, <2>4
<1>6. ASSUME Loading PROVE LinkInv'
  BY <1>6 DEF Loading, linkVars, Signed
<1>7. ASSUME NEW s \in Alternatives(settings), Replace(s) PROVE LinkInv'
  BY <1>7 DEF Replace, Signed
<1>8. ASSUME UNCHANGED sourceVars PROVE LinkInv'
  BY <1>8 DEF sourceVars, linkVars, Signed
<1> QED
  BY <1>1, <1>2, <1>3, <1>4, <1>5, <1>6, <1>7, <1>8 DEF SourcesNext

\* Where URLs and answers come from (server.go:823-883, 1072-1103).
THEOREM Linked == SourcesSpec => []LinkInv
<1>1. SourcesInit => LinkInv
  BY SourcesAssumption DEF SourcesInit, LinkInv, Signed, OnlyGranted
<1>2. IInv /\ LinkInv /\ [SourcesNext]_sourceVars => LinkInv'
  BY LinkStep
<1> QED BY <1>1, <1>2, ConfigLoaded, PTL DEF SourcesSpec

\* Types, with all that is known of URLs (server.go:1072-1103).
THEOREM SourcesTypes == SourcesSpec => []SourcesTypeOK
<1>1. IInv /\ LinkInv => SourcesTypeOK
  BY DEF IInv, Typed, LinkInv, SourcesTypeOK, URLs
<1> QED BY <1>1, ConfigLoaded, Linked, PTL

\* An object that is shown was asked for by someone with a right to it,
\* through any chain of renewals and restarts (server.go:1093-1124).
THEOREM Granting == SourcesSpec => []OnlyGranted
<1>1. LinkInv => OnlyGranted
  BY DEF LinkInv
<1> QED BY <1>1, Linked, PTL

\* A URL is honoured for its TTL and less than a second more, for every
\* resolution of the clock and every TTL (server.go:1085-1112).
THEOREM Honouring == SourcesSpec => []UrlsHonoured
<1>1. LinkInv => UrlsHonoured
  <2> SUFFICES ASSUME LinkInv, NEW u \in urls
               PROVE  /\ u.key = SigningKey /\ now < u.issued + u.ttl
                           => ValidCitation(u, u.object)
                      /\ ValidCitation(u, u.object)
                           => now < u.issued + u.ttl + TicksPerSecond
    BY DEF UrlsHonoured
  <2> DEFINE end == u.issued + u.ttl
  <2>1. now \in Nat /\ TicksPerSecond \in Nat \ {0}
    BY SourcesAssumption, URLTyped
  <2>0. u.issued \in Nat /\ u.ttl \in Nat
    BY URLTyped
  <2>4. end \in Nat
    BY <2>0
  <2>5. u.expires = Unix(end) /\ u.key # ""
    BY URLTyped
  <2> HIDE DEF end
  <2>2. ASSUME u.key = SigningKey, now < end PROVE ValidCitation(u, u.object)
    <3>1. Unix(now) <= Unix(end)
      <4>1. now <= end
        BY <2>1, <2>2, <2>4
      <4> QED BY <2>1, <2>4, <4>1, SecondsOrdered
    <3>2. Unix(now) \in Nat /\ Unix(end) \in Nat
      BY <2>1, <2>4, Seconds
    <3> QED BY <2>2, <2>5, <3>1, <3>2 DEF ValidCitation
  <2>3. ASSUME ValidCitation(u, u.object) PROVE now < end + TicksPerSecond
    <3>1. Unix(now) <= Unix(end) /\ Unix(now) \in Nat /\ Unix(end) \in Nat
      BY <2>1, <2>3, <2>4, <2>5, Seconds DEF ValidCitation
    <3>2. CASE now <= end
      BY <2>1, <2>4, <3>2
    <3>3. CASE now > end /\ now >= end + TicksPerSecond
      <4>1. Unix(end + TicksPerSecond) = Unix(end) + 1
        BY <2>1, <2>4 DEF Unix
      <4>2. Unix(end + TicksPerSecond) <= Unix(now)
        BY <2>1, <2>4, <3>3, SecondsOrdered
      <4> QED BY <3>1, <4>1, <4>2
    <3> QED BY <2>1, <2>4, <3>2, <3>3
  <2> QED BY <2>2, <2>3 DEF end
<1> QED BY <1>1, Linked, PTL

\* Only a caller with a right of its own brings an object back whose URLs have
\* all expired (server.go:823-834, 868-883).
THEOREM Lapsing == SourcesSpec => LapsedStaysLapsed
<1> DEFINE Comes(o) == /\ Live(o) = {} /\ o \notin inflight
                       /\ Live(o)' # {} \/ o \in inflight'
           Asked(o) == \E p \in Callers : Ask(p, o)
<1>1. LinkInv /\ [SourcesNext]_sourceVars
        => [\A o \in Objects : Comes(o) => Asked(o)]_sourceVars
  <2> SUFFICES ASSUME LinkInv, SourcesNext, NEW o \in Objects, Comes(o)
               PROVE  Asked(o)
    OBVIOUS
  <2>1. /\ Live(o) = {u \in urls : u.object = o /\ u.expires >= Unix(now)}
        /\ Live(o)' = {u \in urls' : u.object = o /\ u.expires >= Unix(now')}
    BY DEF Live, Unix
  <2>2. ASSUME NEW p \in Callers, NEW q \in Objects, Ask(p, q) PROVE Asked(o)
    BY <2>1, <2>2 DEF Ask
  <2>3. ASSUME NEW u \in urls, NEW q \in Objects, Follow(u, q) PROVE FALSE
    BY <2>1, <2>3 DEF Follow, ValidCitation
  <2>4. ASSUME NEW q \in Objects, Answer(q) PROVE FALSE
    <3>1. /\ q \in inflight /\ inflight' \subseteq inflight /\ now' = now
          /\ urls' \subseteq urls \cup {SourceURL(q)}
      BY <2>4 DEF Answer
    <3>2. SourceURL(q).object = q
      BY DEF SourceURL
    <3> QED BY <2>1, <3>1, <3>2
  <2>5. ASSUME NEW q \in Objects, NotFound(q) PROVE FALSE
    BY <2>1, <2>5 DEF NotFound
  <2>6. ASSUME Tick PROVE FALSE
    <3>1. now \in Nat /\ now' = now + 1 /\ urls' = urls /\ inflight' = inflight
      BY <2>6, SourcesAssumption DEF Tick, LinkInv
    <3>2. Unix(now) <= Unix(now') /\ Unix(now) \in Nat /\ Unix(now') \in Nat
      BY <3>1, Seconds, SecondsOrdered
    <3>3. \A u \in urls : u.expires \in Nat
      BY DEF LinkInv, URLs
    <3> QED BY <2>1, <3>1, <3>2, <3>3
  <2>7. ASSUME Loading PROVE FALSE
    BY <2>1, <2>7 DEF Loading, linkVars
  <2>8. ASSUME NEW s \in Alternatives(settings), Replace(s) PROVE FALSE
    BY <2>1, <2>8 DEF Replace
  <2> HIDE DEF Comes
  <2> QED
    BY <2>2, <2>3, <2>4, <2>5, <2>6, <2>7, <2>8 DEF SourcesNext
<1> QED BY <1>1, Linked, PTL DEF SourcesSpec, LapsedStaysLapsed
=============================================================================
