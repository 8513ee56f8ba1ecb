----------------------------- MODULE MCHome_proofs -----------------------------
(***************************************************************************)
(* What is proved of what Eggy keeps, for every value of the constants: of *)
(* each component an inductive invariant, that every step of it keeps; and *)
(* then, since a behaviour is one component's, the invariants that the run *)
(* of MCHome checks.                                                       *)
(***************************************************************************)
EXTENDS MCHome, Approvals_proofs, FoldTheorems, FiniteSetTheorems

-----------------------------------------------------------------------------
(* The configuration file                                                  *)

(* The records that config.yaml is made of.                                *)
Servers ==
    [auth : {"oauth", "bearer-env"}, stdio : BOOLEAN, enabled : BOOLEAN,
     review : BOOLEAN, include : SUBSET Tools, exclude : SUBSET Tools,
     gated : SUBSET Tools, catalog : BOOLEAN, listed : BOOLEAN,
     seen : SUBSET Tools]

SenderRecords == [sender : Senders \cup {None}]
AliasRecords == [provider : Providers, routed : BOOLEAN]
Configs ==
    [owner : SenderRecords \cup {None},
     accounts : [Ids -> SenderRecords \cup {None}],
     password : Ids \cup {None}, migration : Ids \cup {None},
     telegram : {"unset", "on", "off"}, heartbeat : BOOLEAN,
     google : [on : BOOLEAN, email : BOOLEAN],
     providers : [Providers -> {"openrouter", "other"}],
     aliases : [Aliases -> AliasRecords \cup {None}],
     image : Aliases \cup {None}, server : Servers \cup {None}]

(* A server from a plugin waits for its review and is off, or runs with    *)
(* tools that the owner saw in one.                                        *)
Reviewed(s) ==
    s.catalog =>
        \/ s.review /\ ~s.enabled
        \/ s.include # {} /\ s.include \subseteq s.seen

(* A document whose server, if it has one, was reviewed.                   *)
Sound(c) ==
    c \in Configs /\ (c.server # None => Reviewed(c.server))

(* What a writer holds of a write that is under way.                       *)
Jobs == [pc : {"idle", "locked", "loaded", "staged"},
         base : Configs \cup {None}, new : Configs \cup {None}]

(* Only who holds the lock is past idle; what it loaded is what is there,  *)
(* and what it will write was validated and keeps the reviews.             *)
ConfigInv ==
    /\ Sound(file) /\ F!Valid(file)
    /\ text # None => Sound(text)
    /\ lock \in ConfigWriters \cup {None}
    /\ setter \in BOOLEAN /\ writes \in 0 .. MaxWrites
    /\ job \in [ConfigWriters -> Jobs]
    /\ \A w \in ConfigWriters :
          /\ job[w].pc # "idle" => lock = w /\ writes < MaxWrites
          /\ job[w].pc = "loaded" => job[w].base = file
          /\ job[w].pc = "staged" =>
                /\ Sound(job[w].new) /\ F!Valid(job[w].new)
                /\ job[w].base \in {None, file}

(* A document stays one when a field other than its server is set.         *)
LEMMA FieldSet ==
  ASSUME NEW c \in Configs, Sound(c)
  PROVE  /\ \A v \in SenderRecords \cup {None} : Sound([c EXCEPT !.owner = v])
         /\ \A v \in [Ids -> SenderRecords \cup {None}] :
               Sound([c EXCEPT !.accounts = v])
         /\ \A v \in Ids \cup {None} : Sound([c EXCEPT !.password = v])
         /\ \A v \in Ids \cup {None} : Sound([c EXCEPT !.migration = v])
         /\ \A v \in {"unset", "on", "off"} : Sound([c EXCEPT !.telegram = v])
         /\ \A v \in BOOLEAN : Sound([c EXCEPT !.heartbeat = v])
         /\ \A v \in [on : BOOLEAN, email : BOOLEAN] :
               Sound([c EXCEPT !.google = v])
         /\ \A v \in [Providers -> {"openrouter", "other"}] :
               Sound([c EXCEPT !.providers = v])
         /\ \A v \in [Aliases -> AliasRecords \cup {None}] :
               Sound([c EXCEPT !.aliases = v])
         /\ \A v \in Aliases \cup {None} : Sound([c EXCEPT !.image = v])
<1>1. ASSUME NEW v \in SenderRecords \cup {None} PROVE Sound([c EXCEPT !.owner = v])
  <2>1. [c EXCEPT !.owner = v] \in Configs /\ [c EXCEPT !.owner = v].server = c.server
    BY DEF Configs
  <2>. QED  BY <2>1 DEF Sound
<1>2. ASSUME NEW v \in [Ids -> SenderRecords \cup {None}] PROVE Sound([c EXCEPT !.accounts = v])
  <2>1. [c EXCEPT !.accounts = v] \in Configs /\ [c EXCEPT !.accounts = v].server = c.server
    BY DEF Configs
  <2>. QED  BY <2>1 DEF Sound
<1>3. ASSUME NEW v \in Ids \cup {None} PROVE Sound([c EXCEPT !.password = v])
  <2>1. [c EXCEPT !.password = v] \in Configs /\ [c EXCEPT !.password = v].server = c.server
    BY DEF Configs
  <2>. QED  BY <2>1 DEF Sound
<1>4. ASSUME NEW v \in Ids \cup {None} PROVE Sound([c EXCEPT !.migration = v])
  <2>1. [c EXCEPT !.migration = v] \in Configs /\ [c EXCEPT !.migration = v].server = c.server
    BY DEF Configs
  <2>. QED  BY <2>1 DEF Sound
<1>5. ASSUME NEW v \in {"unset", "on", "off"} PROVE Sound([c EXCEPT !.telegram = v])
  <2>1. [c EXCEPT !.telegram = v] \in Configs /\ [c EXCEPT !.telegram = v].server = c.server
    BY DEF Configs
  <2>. QED  BY <2>1 DEF Sound
<1>6. ASSUME NEW v \in BOOLEAN PROVE Sound([c EXCEPT !.heartbeat = v])
  <2>1. [c EXCEPT !.heartbeat = v] \in Configs /\ [c EXCEPT !.heartbeat = v].server = c.server
    BY DEF Configs
  <2>. QED  BY <2>1 DEF Sound
<1>7. ASSUME NEW v \in [on : BOOLEAN, email : BOOLEAN] PROVE Sound([c EXCEPT !.google = v])
  <2>1. [c EXCEPT !.google = v] \in Configs /\ [c EXCEPT !.google = v].server = c.server
    BY DEF Configs
  <2>. QED  BY <2>1 DEF Sound
<1>8. ASSUME NEW v \in [Providers -> {"openrouter", "other"}] PROVE Sound([c EXCEPT !.providers = v])
  <2>1. [c EXCEPT !.providers = v] \in Configs /\ [c EXCEPT !.providers = v].server = c.server
    BY DEF Configs
  <2>. QED  BY <2>1 DEF Sound
<1>9. ASSUME NEW v \in [Aliases -> AliasRecords \cup {None}] PROVE Sound([c EXCEPT !.aliases = v])
  <2>1. [c EXCEPT !.aliases = v] \in Configs /\ [c EXCEPT !.aliases = v].server = c.server
    BY DEF Configs
  <2>. QED  BY <2>1 DEF Sound
<1>10. ASSUME NEW v \in Aliases \cup {None} PROVE Sound([c EXCEPT !.image = v])
  <2>1. [c EXCEPT !.image = v] \in Configs /\ [c EXCEPT !.image = v].server = c.server
    BY DEF Configs
  <2>. QED  BY <2>1 DEF Sound
<1>. QED  BY <1>1, <1>2, <1>3, <1>4, <1>5, <1>6, <1>7, <1>8, <1>9, <1>10

(* So it stays when its server is replaced by one that was reviewed.       *)
LEMMA ServerSet ==
  ASSUME NEW c \in Configs, NEW s \in Servers \cup {None},
         s # None => Reviewed(s)
  PROVE  Sound([c EXCEPT !.server = s])
  BY DEF Sound, Configs

(* What the parts of a document are.                                       *)
LEMMA ConfigParts ==
  ASSUME NEW c \in Configs
  PROVE  /\ c.accounts \in [Ids -> SenderRecords \cup {None}]
         /\ c.google \in [on : BOOLEAN, email : BOOLEAN]
         /\ c.providers \in [Providers -> {"openrouter", "other"}]
         /\ c.aliases \in [Aliases -> AliasRecords \cup {None}]
         /\ c.migration \in Ids \cup {None}
         /\ c.server \in Servers \cup {None}
  BY DEF Configs

(* The setters of accounts and of Telegram make documents of documents.    *)
LEMMA SenderSet ==
  ASSUME NEW c \in Configs, Sound(c), NEW i \in Ids,
         NEW s \in Senders \cup {None}
  PROVE  Sound(F!SetSender(c, i, s))
<1> DEFINE r == [sender |-> s]
           v == [c.accounts EXCEPT ![i] = r]
<1>1. r \in SenderRecords
  BY DEF SenderRecords
<1> HIDE DEF r
<1>2. v \in [Ids -> SenderRecords \cup {None}]
  BY <1>1, ConfigParts
<1>3. Sound([c EXCEPT !.accounts = v])
  <2> HIDE DEF v
  <2>. QED  BY <1>2, FieldSet
<1>4. F!SetSender(c, i, s) = [c EXCEPT !.accounts = v]
  BY DEF F!SetSender, r
<1>. QED  BY <1>3, <1>4

(* An account that goes takes the migration with it if it was its owner.   *)
LEMMA AccountRemoved ==
  ASSUME NEW c \in Configs, Sound(c), NEW i \in Ids,
         NEW n \in F!RemoveAccount(c, i)
  PROVE  Sound(n)
<1> DEFINE v == [c.accounts EXCEPT ![i] = None]
           m == IF c.migration = i THEN None ELSE c.migration
           c1 == [c EXCEPT !.accounts = v]
           c2 == [c1 EXCEPT !.migration = m]
<1>1. v \in [Ids -> SenderRecords \cup {None}] /\ m \in Ids \cup {None}
  BY ConfigParts
<1>2. n = c2
  <2>1. c1.migration = c.migration
    BY DEF Configs
  <2>2. n = [c EXCEPT !.accounts[i] = None,
                      !.migration = IF @ = i THEN None ELSE @]
    BY DEF F!RemoveAccount, F!If
  <2>. QED  BY <2>1, <2>2 DEF Configs
<1> HIDE DEF v, m
<1>3. c1 \in Configs /\ Sound(c1)
  BY <1>1, FieldSet DEF Sound
<1> HIDE DEF c1
<1>4. Sound(c2)
  BY <1>1, <1>3, FieldSet
<1>. QED  BY <1>2, <1>4

(* So does the owner who becomes an account.                               *)
LEMMA Converted ==
  ASSUME NEW c \in Configs, Sound(c), NEW i \in Ids,
         NEW a \in [Ids -> SenderRecords \cup {None}],
         NEW n \in F!ConvertToAccounts(c, a, i, i)
  PROVE  Sound(n)
<1> DEFINE c1 == [c EXCEPT !.owner = None]
           c2 == [c1 EXCEPT !.telegram = "unset"]
           c3 == [c2 EXCEPT !.accounts = a]
           c4 == [c3 EXCEPT !.password = i]
           c5 == [c4 EXCEPT !.migration = i]
<1>1. n = c5
  BY DEF F!ConvertToAccounts, F!If
<1>2. c1 \in Configs /\ Sound(c1)
  BY FieldSet DEF Sound
<1> HIDE DEF c1
<1>3. c2 \in Configs /\ Sound(c2)
  BY <1>2, FieldSet DEF Sound
<1> HIDE DEF c2
<1>4. c3 \in Configs /\ Sound(c3)
  BY <1>3, FieldSet DEF Sound
<1> HIDE DEF c3
<1>5. c4 \in Configs /\ Sound(c4)
  BY <1>4, FieldSet DEF Sound
<1> HIDE DEF c4
<1>. QED  BY <1>1, <1>5, FieldSet

(* A setter whose result depends on its argument alone.                    *)
LEMMA HeartbeatSet ==
  ASSUME NEW c \in Configs, Sound(c), NEW on \in BOOLEAN,
         NEW n \in F!SetHeartbeat(c, on)
  PROVE  Sound(n)
  BY FieldSet DEF F!SetHeartbeat, F!If

(* The same of the switch of Google.                                       *)
LEMMA GoogleSet ==
  ASSUME NEW c \in Configs, Sound(c), NEW on \in BOOLEAN,
         NEW n \in F!SetGoogle(c, on)
  PROVE  Sound(n)
<1> DEFINE v == [c.google EXCEPT !.on = on]
<1>1. v \in [on : BOOLEAN, email : BOOLEAN]
  BY ConfigParts
<1>2. n = [c EXCEPT !.google = v]
  BY DEF F!SetGoogle
<1> HIDE DEF v
<1>. QED  BY <1>1, <1>2, FieldSet

(* Whatever setter of accounts is called.                                  *)
LEMMA AccountsEdited ==
  ASSUME NEW c \in Configs, Sound(c), NEW n \in F!AccountEdits(c)
  PROVE  Sound(n)
<1>1. ASSUME NEW i \in Ids, NEW s \in F!SomeSender,
             \/ s \in Senders /\ n \in F!LinkTelegramAccount(c, i, s)
             \/ n \in F!AddAccount(c, i, s) \/ n \in F!EditAccount(c, i, s)
      PROVE  Sound(n)
  BY <1>1, SenderSet
  DEF F!LinkTelegramAccount, F!AddAccount, F!EditAccount, F!If, F!SomeSender,
      F!NoSender
<1>2. ASSUME NEW i \in Ids, n \in F!UnlinkTelegramAccount(c, i)
      PROVE  Sound(n)
  BY <1>2, SenderSet DEF F!UnlinkTelegramAccount, F!If, F!NoSender
<1>3. ASSUME NEW i \in Ids, n \in F!RemoveAccount(c, i) PROVE Sound(n)
  BY <1>3, AccountRemoved
<1>4. ASSUME NEW i \in Ids, n \in F!SetMigrationOwner(c, i) PROVE Sound(n)
  <2>1. n = c \/ n = [c EXCEPT !.migration = i]
    BY <1>4 DEF F!SetMigrationOwner, F!If
  <2>. QED  BY <2>1, FieldSet
<1>5. ASSUME NEW i \in Ids, NEW s \in F!SomeSender,
             n \in F!ConvertToAccounts(c, [j \in Ids |->
                      IF j = i THEN [sender |-> s] ELSE None], i, i)
      PROVE  Sound(n)
  <2>1. [j \in Ids |-> IF j = i THEN [sender |-> s] ELSE None]
            \in [Ids -> SenderRecords \cup {None}]
    BY DEF SenderRecords, F!SomeSender, F!NoSender
  <2>. QED  BY <1>5, <2>1, Converted
<1>6. ASSUME NEW on \in BOOLEAN,
             \/ n \in F!SetTelegramEnabled(c, on) \/ n \in F!SetHeartbeat(c, on)
      PROVE  Sound(n)
  BY <1>6, FieldSet, HeartbeatSet DEF F!SetTelegramEnabled
<1>7. PICK E : n \in E /\
        \/ \E i \in Ids, s \in Senders : E = F!LinkTelegramAccount(c, i, s)
        \/ \E i \in Ids : E = F!UnlinkTelegramAccount(c, i)
        \/ \E i \in Ids, s \in F!SomeSender : E = F!AddAccount(c, i, s)
        \/ \E i \in Ids, s \in F!SomeSender : E = F!EditAccount(c, i, s)
        \/ \E i \in Ids : E = F!RemoveAccount(c, i)
        \/ \E i \in Ids : E = F!SetMigrationOwner(c, i)
        \/ \E i \in Ids, s \in F!SomeSender :
             E = F!ConvertToAccounts(c, [j \in Ids |->
                    IF j = i THEN [sender |-> s] ELSE None], i, i)
        \/ \E on \in BOOLEAN : E = F!SetTelegramEnabled(c, on)
        \/ \E on \in BOOLEAN : E = F!SetHeartbeat(c, on)
  <2> DEFINE Only(i, s) ==
               F!ConvertToAccounts(c, [j \in Ids |->
                  IF j = i THEN [sender |-> s] ELSE None], i, i)
             A1 == {F!LinkTelegramAccount(c, i, s) :
                      i \in Ids, s \in Senders}
             A2 == {F!UnlinkTelegramAccount(c, i) : i \in Ids}
             A3 == {F!AddAccount(c, i, s) : i \in Ids, s \in F!SomeSender}
             A4 == {F!EditAccount(c, i, s) : i \in Ids, s \in F!SomeSender}
             A5 == {F!RemoveAccount(c, i) : i \in Ids}
             A6 == {F!SetMigrationOwner(c, i) : i \in Ids}
             Z == {Only(i, s) : i \in Ids, s \in F!SomeSender}
             A7 == {F!SetTelegramEnabled(c, on) :
                      on \in {b \in F!Bools : b => "telegram" \in env}}
             A8 == {F!SetHeartbeat(c, on) : on \in F!Bools}
  <2>1. F!AccountEdits(c) = UNION (A1 \cup A2 \cup A3 \cup A4 \cup A5
                                     \cup A6 \cup Z \cup A7 \cup A8)
    BY DEF F!AccountEdits
  <2>2. PICK E : n \in E /\ E \in A1 \cup A2 \cup A3 \cup A4
                               \cup A5 \cup A6 \cup Z \cup A7 \cup A8
    <3> HIDE DEF A1, A2, A3, A4, A5, A6, A7, A8, Z
    <3>. QED  BY <2>1
  <2>3. E \in Z => \E i \in Ids, s \in F!SomeSender : E = Only(i, s)
    <3> HIDE DEF Only
    <3>. QED  OBVIOUS
  <2>4. E \in A7 \cup A8 =>
                   \/ \E on \in BOOLEAN : E = F!SetTelegramEnabled(c, on)
                   \/ \E on \in BOOLEAN : E = F!SetHeartbeat(c, on)
    BY DEF F!Bools
  <2>5. \/ E \in Z \/ E \in A7 \cup A8
        \/ \E i \in Ids, s \in Senders : E = F!LinkTelegramAccount(c, i, s)
        \/ \E i \in Ids : E = F!UnlinkTelegramAccount(c, i)
        \/ \E i \in Ids, s \in F!SomeSender : E = F!AddAccount(c, i, s)
        \/ \E i \in Ids, s \in F!SomeSender : E = F!EditAccount(c, i, s)
        \/ \E i \in Ids : E = F!RemoveAccount(c, i)
        \/ \E i \in Ids : E = F!SetMigrationOwner(c, i)
    <3> HIDE DEF Z, A7, A8
    <3>. QED  BY <2>2
  <2> HIDE DEF A1, A2, A3, A4, A5, A6, A7, A8, Z
  <2>. QED  BY <2>2, <2>3, <2>4, <2>5
<1>. QED
  BY <1>1, <1>2, <1>3, <1>4, <1>5, <1>6, <1>7 DEF F!SomeSender

(* So do those of Google and of the models.                                *)
LEMMA ModelsEdited ==
  ASSUME NEW c \in Configs, Sound(c), NEW n \in F!ModelEdits(c)
  PROVE  Sound(n)
<1>1. ASSUME NEW on \in BOOLEAN, n \in F!SetGoogle(c, on) PROVE Sound(n)
  BY <1>1, GoogleSet
<1>2. ASSUME NEW on \in BOOLEAN, n \in F!SetExpectedGoogleEmail(c, on)
      PROVE  Sound(n)
  <2> DEFINE v == [c.google EXCEPT !.email = on]
  <2>1. v \in [on : BOOLEAN, email : BOOLEAN]
    BY ConfigParts
  <2>2. n = [c EXCEPT !.google = v]
    BY <1>2 DEF F!SetExpectedGoogleEmail
  <2> HIDE DEF v
  <2>. QED  BY <2>1, <2>2, FieldSet
<1>3. ASSUME NEW p \in Providers, NEW kind \in {"openrouter", "other"},
             n \in F!SetProvider(c, p, kind)
      PROVE  Sound(n)
  <2> DEFINE v == [c.providers EXCEPT ![p] = kind]
  <2>1. v \in [Providers -> {"openrouter", "other"}]
    BY ConfigParts
  <2>2. n = [c EXCEPT !.providers = v]
    BY <1>3 DEF F!SetProvider
  <2> HIDE DEF v
  <2>. QED  BY <2>1, <2>2, FieldSet
<1>4. ASSUME NEW a \in Aliases, NEW r \in AliasRecords \cup {None},
             n = [c EXCEPT !.aliases[a] = r]
      PROVE  Sound(n)
  <2> DEFINE v == [c.aliases EXCEPT ![a] = r]
  <2>1. v \in [Aliases -> AliasRecords \cup {None}]
    BY ConfigParts
  <2>2. n = [c EXCEPT !.aliases = v]
    BY <1>4
  <2> HIDE DEF v
  <2>. QED  BY <2>1, <2>2, FieldSet
<1>5. ASSUME NEW a \in Aliases, NEW p \in Providers, NEW r \in BOOLEAN,
             n \in F!SetModelAlias(c, a, p, r)
      PROVE  Sound(n)
  <2>1. [provider |-> p, routed |-> r] \in AliasRecords
    BY DEF AliasRecords
  <2>2. n = [c EXCEPT !.aliases[a] = [provider |-> p, routed |-> r]]
    BY <1>5 DEF F!SetModelAlias
  <2>. QED  BY <1>4, <2>1, <2>2
<1>6. ASSUME NEW a \in Aliases, n \in F!RemoveModelAlias(c, a)
      PROVE  Sound(n)
  BY <1>4, <1>6 DEF F!RemoveModelAlias, F!If
<1>7. ASSUME NEW a \in Aliases \cup {None}, n \in F!SetImageModel(c, a)
      PROVE  Sound(n)
  BY <1>7, FieldSet DEF F!SetImageModel
<1>8. PICK E : n \in E /\
        \/ \E on \in BOOLEAN : E = F!SetGoogle(c, on)
        \/ \E on \in BOOLEAN : E = F!SetExpectedGoogleEmail(c, on)
        \/ \E p \in Providers, kind \in {"openrouter", "other"} :
             E = F!SetProvider(c, p, kind)
        \/ \E a \in Aliases, p \in Providers, r \in BOOLEAN :
             E = F!SetModelAlias(c, a, p, r)
        \/ \E a \in Aliases \cup {None} : E = F!SetImageModel(c, a)
        \/ \E a \in Aliases : E = F!RemoveModelAlias(c, a)
  BY DEF F!ModelEdits, F!Bools
<1>. QED  BY <1>1, <1>2, <1>3, <1>5, <1>6, <1>7, <1>8

(* A server as it is made was reviewed, or comes from no plugin, or waits  *)
(* for its review and is off.                                              *)
LEMMA NewServer ==
  ASSUME NEW how \in {"oauth", "bearer-env"}, NEW review \in BOOLEAN
  PROVE  /\ F!Server(how, review) \in Servers
         /\ F!Server(how, review).catalog = review
         /\ F!Server(how, review).review = review
         /\ ~F!Server(how, review).enabled
         /\ Reviewed(F!Server(how, review))
  BY DEF F!Server, Servers, Reviewed

(* A server that was reviewed may be switched on, any may be switched off. *)
LEMMA EnabledSet ==
  ASSUME NEW s \in Servers, Reviewed(s), NEW on \in BOOLEAN,
         ~(on /\ s.review)
  PROVE  LET n == [s EXCEPT !.enabled = on]
         IN n \in Servers /\ Reviewed(n)
<1> DEFINE n == [s EXCEPT !.enabled = on]
<1>1. /\ n \in Servers /\ n.enabled = on /\ n.review = s.review
      /\ n.include = s.include /\ n.seen = s.seen /\ n.catalog = s.catalog
  BY DEF Servers
<1>2. on \in BOOLEAN /\ s.review \in BOOLEAN /\ s.enabled \in BOOLEAN
  BY DEF Servers
<1> HIDE DEF n
<1>3. Reviewed(n)
  BY <1>1, <1>2 DEF Reviewed
<1>. QED  BY <1>1, <1>3 DEF n

(* How a server is signed in to says nothing of its review.                *)
LEMMA AuthSet ==
  ASSUME NEW s \in Servers, NEW how \in {"oauth", "bearer-env"}
  PROVE  LET n == [s EXCEPT !.auth = how]
         IN /\ n \in Servers /\ n.enabled = s.enabled /\ n.review = s.review
            /\ n.include = s.include /\ n.seen = s.seen
            /\ n.catalog = s.catalog
  BY DEF Servers

(* A review allows a server the tools that the owner saw in it, or leaves  *)
(* the server off.                                                         *)
LEMMA ReviewSet ==
  ASSUME NEW s \in Servers, Reviewed(s), NEW on \in BOOLEAN,
         NEW gated \in SUBSET Tools, NEW reviewed \in SUBSET Tools,
         on => F!Allowed(s, reviewed) # {}
  PROVE  LET allowed == F!Allowed(s, reviewed)
             kept == [s EXCEPT !.enabled = on, !.gated = gated \cap allowed]
             n == IF on THEN [kept EXCEPT !.include = allowed,
                                          !.review = FALSE,
                                          !.seen = reviewed]
                        ELSE kept
         IN n \in Servers /\ Reviewed(n)
<1> DEFINE allowed == F!Allowed(s, reviewed)
           k1 == [s EXCEPT !.enabled = on]
           k2 == [k1 EXCEPT !.gated = gated \cap allowed]
           n1 == [k2 EXCEPT !.include = allowed]
           n2 == [n1 EXCEPT !.review = FALSE]
           n3 == [n2 EXCEPT !.seen = reviewed]
<1>1. allowed \subseteq reviewed /\ allowed \in SUBSET Tools
  BY DEF F!Allowed
<1>2. on => allowed # {}
  OBVIOUS
<1> HIDE DEF allowed
<1>3. /\ k1 \in Servers /\ k1.enabled = on /\ k1.review = s.review
      /\ k1.include = s.include /\ k1.seen = s.seen
      /\ k1.catalog = s.catalog
  BY DEF Servers
<1> HIDE DEF k1
<1>4. /\ k2 \in Servers /\ k2.enabled = on /\ k2.review = s.review
      /\ k2.include = s.include /\ k2.seen = s.seen
      /\ k2.catalog = s.catalog
  BY <1>1, <1>3 DEF Servers
<1>5. k2 = [s EXCEPT !.enabled = on, !.gated = gated \cap allowed]
  BY DEF k1
<1> HIDE DEF k2
<1>6. n1 \in Servers /\ n1.include = allowed
  BY <1>1, <1>4 DEF Servers
<1> HIDE DEF n1
<1>7. n2 \in Servers /\ n2.include = allowed
  BY <1>6 DEF Servers
<1> HIDE DEF n2
<1>8. n3 \in Servers /\ n3.include = allowed /\ n3.seen = reviewed
  BY <1>7 DEF Servers
<1>9. n3 = [k2 EXCEPT !.include = allowed, !.review = FALSE, !.seen = reviewed]
  BY DEF n1, n2
<1> HIDE DEF n3
<1>10. on => Reviewed(n3)
  BY <1>1, <1>2, <1>8 DEF Reviewed
<1>11. ~on => Reviewed(k2)
  BY <1>4 DEF Reviewed
<1>. QED  BY <1>4, <1>5, <1>8, <1>9, <1>10, <1>11 DEF allowed

(* The setters of the server keep it one that was reviewed.                *)
LEMMA ServersEdited ==
  ASSUME NEW c \in Configs, Sound(c), NEW n \in F!ServerEdits(c)
  PROVE  Sound(n)
<1>0. /\ c.server \in Servers \cup {None}
      /\ c.server # None => Reviewed(c.server)
  BY ConfigParts DEF Sound
<1>1. ASSUME NEW how \in {"oauth", "bearer-env"}, NEW on \in BOOLEAN,
             n \in F!SetMCPServer(c, how, on)
      PROVE  Sound(n)
  <2> DEFINE s == IF c.server = None THEN F!Server(how, FALSE)
                  ELSE c.server
             t == [s EXCEPT !.auth = how]
             u == [t EXCEPT !.enabled = on]
  <2>1. s \in Servers /\ Reviewed(s)
    BY <1>0, NewServer
  <2>2. ~(on /\ s.review) /\ n = [c EXCEPT !.server = u]
    BY <1>1 DEF F!SetMCPServer, F!If
  <2> HIDE DEF s
  <2>3. t \in Servers /\ Reviewed(t) /\ t.review = s.review
    BY <2>1, AuthSet DEF Reviewed
  <2> HIDE DEF t
  <2>4. u \in Servers /\ Reviewed(u)
    BY <2>2, <2>3, EnabledSet
  <2> HIDE DEF u
  <2>. QED  BY <2>2, <2>4, ServerSet
<1>2. ASSUME NEW on \in BOOLEAN, n \in F!SetMCPServerEnabled(c, on)
      PROVE  Sound(n)
  <2> DEFINE s == c.server
             u == [s EXCEPT !.enabled = on]
  <2>1. s \in Servers /\ ~(on /\ s.review) /\ n = [c EXCEPT !.server = u]
    BY <1>0, <1>2 DEF F!SetMCPServerEnabled, F!If
  <2>3. c.server # None
    BY <1>2 DEF F!SetMCPServerEnabled, F!If
  <2>2. u \in Servers /\ Reviewed(u)
    BY <1>0, <2>1, <2>3, EnabledSet
  <2> HIDE DEF u
  <2>. QED  BY <2>1, <2>2, ServerSet
<1>3. ASSUME n \in F!RemoveMCPServer(c) PROVE Sound(n)
  BY <1>3, ServerSet DEF F!RemoveMCPServer, F!If, Reviewed
<1>4. ASSUME n \in F!AddMCPServerDisabled(c) PROVE Sound(n)
  BY <1>4, ServerSet, NewServer DEF F!AddMCPServerDisabled, F!If
<1>5. ASSUME c.server # None, NEW on \in BOOLEAN, NEW gated \in SUBSET Tools,
             NEW reviewed \in SUBSET Tools,
             n \in F!SetMCPServerApproval(c, on, gated, reviewed)
      PROVE  Sound(n)
  <2> DEFINE s == c.server
             allowed == F!Allowed(s, reviewed)
             kept == [s EXCEPT !.enabled = on, !.gated = gated \cap allowed]
             u == IF on THEN [kept EXCEPT !.include = allowed,
                                          !.review = FALSE,
                                          !.seen = reviewed]
                        ELSE kept
  <2>1. s \in Servers /\ Reviewed(s)
    BY <1>0, <1>5
  <2>2. (on => allowed # {}) /\ n = [c EXCEPT !.server = u]
    BY <1>5 DEF F!SetMCPServerApproval, F!If
  <2>3. u \in Servers /\ Reviewed(u)
    BY <2>1, <2>2, ReviewSet
  <2> HIDE DEF u
  <2>. QED  BY <2>2, <2>3, ServerSet
<1>6. PICK E : n \in E /\
        \/ \E how \in {"oauth", "bearer-env"}, on \in BOOLEAN :
             E = F!SetMCPServer(c, how, on)
        \/ \E on \in BOOLEAN : E = F!SetMCPServerEnabled(c, on)
        \/ E = F!RemoveMCPServer(c)
        \/ E = F!AddMCPServerDisabled(c)
        \/ /\ c.server # None
           /\ \E on \in BOOLEAN, gated \in SUBSET Tools,
                 reviewed \in SUBSET Tools :
                E = F!SetMCPServerApproval(c, on, gated, reviewed)
  BY DEF F!ServerEdits, F!Bools
<1>. QED  BY <1>1, <1>2, <1>3, <1>4, <1>5, <1>6

(* Whatever setter an edit calls, what it makes of a document is one whose *)
(* server was reviewed.                                                    *)
LEMMA EditedSoundly ==
  ASSUME NEW c \in Configs, Sound(c), NEW n \in F!Edited(c)
  PROVE  Sound(n)
  BY AccountsEdited, ModelsEdited, ServersEdited DEF F!Edited

(* So is the first document.                                               *)
LEMMA FirstConfig ==
  ASSUME NEW s \in Senders \cup {None}, NEW i \in Ids
  PROVE  /\ Sound(F!Legacy(s)) /\ F!Legacy(s) \in Configs
         /\ Sound(F!WithAccounts(i, s))
         /\ Sound([F!Legacy(s) EXCEPT
                     !.server = [F!Server("oauth", FALSE) EXCEPT !.stdio = TRUE]])
         /\ Sound([F!Legacy(s) EXCEPT !.server = F!ByHand])
<1>1. ASSUME NEW v \in Senders \cup {None}
      PROVE  Sound(F!Legacy(v)) /\ F!Legacy(v) \in Configs
  <2> DEFINE p == CHOOSE q \in Providers : TRUE
             t == [a \in Aliases |->
                     IF a = Default THEN [provider |-> p, routed |-> FALSE]
                     ELSE None]
  <2>1. p \in Providers
    BY ConfigAssumption
  <2> HIDE DEF p
  <2>2. t \in [Aliases -> AliasRecords \cup {None}]
    BY <2>1 DEF AliasRecords
  <2>3. F!Legacy(v).aliases = t
    BY DEF F!Legacy, p
  <2> HIDE DEF t
  <2>4. /\ [sender |-> v] \in SenderRecords
        /\ [j \in Ids |-> None] \in [Ids -> SenderRecords \cup {None}]
        /\ [q \in Providers |-> "openrouter"]
              \in [Providers -> {"openrouter", "other"}]
    BY DEF SenderRecords
  <2>5. F!Legacy(v) =
          [owner |-> [sender |-> v], accounts |-> [j \in Ids |-> None],
           password |-> None, migration |-> None, telegram |-> "unset",
           heartbeat |-> FALSE, google |-> [on |-> FALSE, email |-> FALSE],
           providers |-> [q \in Providers |-> "openrouter"],
           aliases |-> t, image |-> None, server |-> None]
    BY DEF F!Legacy, t, p
  <2>6. F!Legacy(v) \in Configs
    BY <2>2, <2>4, <2>5 DEF Configs
  <2>. QED  BY <2>5, <2>6 DEF Sound, Reviewed
<1>2. Sound(F!WithAccounts(i, s))
  <2> DEFINE c0 == F!Legacy(None)
             c1 == [c0 EXCEPT !.owner = None]
             c2 == [c1 EXCEPT !.password = i]
             c3 == F!SetSender(c2, i, s)
  <2>1. c0 \in Configs /\ Sound(c0)
    BY <1>1
  <2>2. F!WithAccounts(i, s) = c3
    BY DEF F!WithAccounts, F!SetSender
  <2> HIDE DEF c0
  <2>3. c1 \in Configs /\ Sound(c1)
    BY <2>1, FieldSet DEF Sound
  <2> HIDE DEF c1
  <2>4. c2 \in Configs /\ Sound(c2)
    BY <2>3, FieldSet DEF Sound
  <2> HIDE DEF c2
  <2>5. Sound(c3)
    BY <2>4, SenderSet
  <2>. QED  BY <2>2, <2>5
<1>3. ASSUME NEW t \in Servers, ~t.catalog
      PROVE  Sound([F!Legacy(s) EXCEPT !.server = t])
  BY <1>1, <1>3, ServerSet DEF Reviewed
<1>4. LET t == [F!Server("oauth", FALSE) EXCEPT !.stdio = TRUE]
      IN t \in Servers /\ ~t.catalog
  BY NewServer DEF Servers
<1>5. F!ByHand \in Servers /\ ~F!ByHand.catalog
  <2> DEFINE t1 == [F!Server("oauth", FALSE) EXCEPT !.include = Tools]
             t2 == [t1 EXCEPT !.listed = TRUE]
  <2>1. t1 \in Servers /\ ~t1.catalog
    BY NewServer DEF Servers
  <2>2. F!ByHand = t2
    BY DEF F!ByHand
  <2> HIDE DEF t1
  <2>3. t2 \in Servers /\ ~t2.catalog
    BY <2>1 DEF Servers
  <2>. QED  BY <2>2, <2>3
<1>. QED  BY <1>1, <1>2, <1>3, <1>4, <1>5

(* The file that is there at first.                                        *)
LEMMA ConfigInit == F!Init => ConfigInv
<1> SUFFICES ASSUME F!Init PROVE ConfigInv
  OBVIOUS
<1>1. PICK s \in F!SomeSender, i \in Ids :
         file \in {F!Legacy(s), F!WithAccounts(i, s),
                   [F!Legacy(s) EXCEPT !.server =
                      [F!Server("oauth", FALSE) EXCEPT !.stdio = TRUE]],
                   [F!Legacy(s) EXCEPT !.server = F!ByHand]}
  BY DEF F!Init
<1>2. Sound(file) /\ F!Valid(file)
  BY <1>1, FirstConfig DEF F!Init, F!Loads, F!SomeSender, F!NoSender
<1>3. lock = None /\ text = None /\ setter \in BOOLEAN /\ writes = 0
  BY DEF F!Init
<1>4. /\ job \in [ConfigWriters -> Jobs]
      /\ \A w \in ConfigWriters : job[w].pc = "idle"
  BY DEF F!Init, F!Idle, Jobs
<1>. QED  BY <1>2, <1>3, <1>4, ConfigAssumption DEF ConfigInv

(* Nothing of it changes while none of its variables does.                 *)
LEMMA ConfigStays == ConfigInv /\ UNCHANGED configVars => ConfigInv'
<1> SUFFICES ASSUME ConfigInv, UNCHANGED configVars PROVE ConfigInv'
  OBVIOUS
<1>1. /\ file' = file /\ lock' = lock /\ job' = job /\ text' = text
      /\ setter' = setter /\ writes' = writes
  BY DEF configVars
<1>2. Sound(file)' /\ F!Valid(file)' /\ (text' # None => Sound(text'))
  BY <1>1 DEF ConfigInv
<1>. QED  BY <1>1, <1>2 DEF ConfigInv

(* What a writer that moves on does to the rest.                           *)
LEMMA ConfigMoves ==
  ASSUME ConfigInv, NEW w \in ConfigWriters, NEW j \in Jobs,
         job' = [job EXCEPT ![w] = j], lock' \in {w, None},
         lock \in {w, None},
         j.pc # "idle" => lock' = w /\ writes < MaxWrites,
         j.pc = "loaded" => j.base = file,
         j.pc = "staged" => /\ Sound(j.new) /\ F!Valid(j.new)
                            /\ j.base \in {None, file},
         file' = file, setter' = setter, writes' = writes,
         text' \in {text, None}
  PROVE  ConfigInv'
<1>1. \A v \in ConfigWriters \ {w} : job[v].pc = "idle" /\ job'[v] = job[v]
  BY ConfigAssumption DEF ConfigInv
<1>2. job' \in [ConfigWriters -> Jobs] /\ job'[w] = j
  BY DEF ConfigInv
<1>3. \A v \in ConfigWriters :
         /\ job'[v].pc # "idle" => lock' = v /\ writes' < MaxWrites
         /\ job'[v].pc = "loaded" => job'[v].base = file'
         /\ job'[v].pc = "staged" =>
               /\ Sound(job'[v].new) /\ F!Valid(job'[v].new)
               /\ job'[v].base \in {None, file'}
  BY <1>1, <1>2
<1>4. /\ Sound(file)' /\ F!Valid(file)' /\ (text' # None => Sound(text'))
      /\ lock' \in ConfigWriters \cup {None} /\ setter' \in BOOLEAN
      /\ writes' \in 0 .. MaxWrites
  BY DEF ConfigInv
<1>. QED  BY <1>2, <1>3, <1>4 DEF ConfigInv

(* Every step of a writer, of the editor and a crash keep it.              *)
LEMMA ConfigKept == ConfigInv /\ F!Next => ConfigInv'
<1> SUFFICES ASSUME ConfigInv, F!Next PROVE ConfigInv'
  OBVIOUS
<1> USE DEF F!Goes
<1>0. /\ job \in [ConfigWriters -> Jobs] /\ Sound(file) /\ F!Valid(file)
      /\ \A w \in ConfigWriters :
            job[w].pc # "idle" => lock = w /\ writes < MaxWrites
      /\ file \in Configs
  BY DEF ConfigInv, Sound
<1>00. /\ F!Idle \in Jobs /\ F!Idle.pc = "idle"
       /\ [F!Idle EXCEPT !.pc = "locked"] \in Jobs
       /\ [F!Idle EXCEPT !.pc = "locked"].pc = "locked"
  BY DEF F!Idle, Jobs
<1>1. ASSUME NEW w \in ConfigWriters, F!Lock(w) PROVE ConfigInv'
  BY <1>00, <1>1, ConfigMoves DEF F!Lock
<1>2. ASSUME NEW w \in ConfigWriters, F!Load(w) PROVE ConfigInv'
  <2> DEFINE j == [pc |-> "loaded", base |-> file, new |-> None]
  <2>1. j \in Jobs /\ j.pc = "loaded" /\ j.base = file
    BY <1>0 DEF Jobs
  <2>2. job' = [job EXCEPT ![w] = j]
    BY <1>2 DEF F!Load
  <2> HIDE DEF j
  <2>. QED  BY <1>0, <1>2, <2>1, <2>2, ConfigMoves DEF F!Load
<1>3. ASSUME NEW w \in ConfigWriters, F!Apply(w) PROVE ConfigInv'
  <2>1. PICK n \in F!Edited(job[w].base) :
            F!Valid(n) /\ job' = [job EXCEPT ![w] =
               [job[w] EXCEPT !.pc = "staged", !.new = n]]
    BY <1>3 DEF F!Apply
  <2>2. Sound(n) /\ n \in Configs
    BY <1>0, <1>3, EditedSoundly DEF F!Apply, ConfigInv, Sound
  <2> DEFINE j1 == [job[w] EXCEPT !.pc = "staged"]
             j2 == [j1 EXCEPT !.new = n]
  <2>3. job' = [job EXCEPT ![w] = j2]
    BY <2>1
  <2>4. j1 \in Jobs /\ j1.pc = "staged" /\ j1.base = job[w].base
    BY <1>0 DEF Jobs
  <2> HIDE DEF j1
  <2>5. /\ j2 \in Jobs /\ j2.pc = "staged" /\ j2.base = job[w].base
        /\ j2.new = n
    BY <2>2, <2>4 DEF Jobs
  <2> HIDE DEF j2
  <2>6. job[w].base = file
    BY <1>3 DEF F!Apply, ConfigInv
  <2>. QED  BY <1>0, <1>3, <2>1, <2>2, <2>3, <2>5, <2>6, ConfigMoves
            DEF F!Apply
<1>4. ASSUME NEW w \in ConfigWriters, F!Refuse(w) PROVE ConfigInv'
  BY <1>0, <1>00, <1>4, ConfigMoves DEF F!Refuse
<1>5. ASSUME NEW w \in ConfigWriters, F!Rename(w) PROVE ConfigInv'
  <2>1. /\ file' = job[w].new /\ job' = [job EXCEPT ![w] = F!Idle]
        /\ lock' = None /\ writes' = writes + 1 /\ text' = text
        /\ lock = w /\ writes < MaxWrites
    BY <1>0, <1>5 DEF F!Rename
  <2>2. Sound(job[w].new) /\ F!Valid(job[w].new)
    BY <1>5 DEF F!Rename, ConfigInv
  <2>3. setter' \in BOOLEAN
    BY <1>5, Zenon DEF F!Rename
  <2>4. \A v \in ConfigWriters : job'[v].pc = "idle"
    BY <1>0, <1>00, <2>1
  <2>5. job' \in [ConfigWriters -> Jobs]
    BY <1>0, <1>00, <2>1
  <2>6. text' # None => Sound(text')
    BY <2>1 DEF ConfigInv
  <2>7. writes' \in 0 .. MaxWrites
    BY <2>1, ConfigAssumption DEF ConfigInv
  <2>8. Sound(file') /\ F!Valid(file')
    BY <2>1, <2>2
  <2>. QED  BY <2>1, <2>3, <2>4, <2>5, <2>6, <2>7, <2>8 DEF ConfigInv
<1>6. ASSUME NEW w \in ConfigWriters, F!ReplaceConfig(w) PROVE ConfigInv'
  <2>1. PICK n \in {text} \cup F!SetHeartbeat(text, TRUE)
                     \cup F!SetGoogle(text, TRUE) :
            /\ F!Loads(n)
            /\ job' = [job EXCEPT ![w] =
                  [pc |-> "staged", base |-> None, new |-> n]]
    BY <1>6 DEF F!ReplaceConfig
  <2>2. Sound(text) /\ text \in Configs
    BY <1>6 DEF F!ReplaceConfig, ConfigInv, Sound
  <2>5. Sound(n) /\ n \in Configs /\ F!Valid(n)
    BY <2>1, <2>2, HeartbeatSet, GoogleSet DEF F!Loads, Sound
  <2> DEFINE j == [pc |-> "staged", base |-> None, new |-> n]
  <2>6. /\ j \in Jobs /\ j.pc = "staged" /\ j.base = None /\ j.new = n
        /\ job' = [job EXCEPT ![w] = j]
    BY <2>1, <2>5 DEF Jobs
  <2> HIDE DEF j
  <2>. QED  BY <1>0, <1>6, <2>5, <2>6, ConfigMoves DEF F!ReplaceConfig
<1>7. CASE F!ReadConfigText
  <2>1. /\ file' = file /\ lock' = lock /\ job' = job /\ text' = file
        /\ setter' = setter /\ writes' = writes
    BY <1>7 DEF F!ReadConfigText
  <2>. QED  BY <1>0, <2>1 DEF ConfigInv
<1>8. CASE F!Crash
  <2>1. lock \in ConfigWriters
    BY <1>8 DEF F!Crash, ConfigInv
  <2>. QED  BY <1>0, <1>00, <1>8, <2>1, ConfigMoves DEF F!Crash
<1>. QED
  BY <1>1, <1>2, <1>3, <1>4, <1>5, <1>6, <1>7, <1>8 DEF F!Next

(* What the invariant says of the two properties.                          *)
LEMMA ConfigMeans ==
  ConfigInv => F!TypeOK /\ F!NothingOverwritten /\ F!OnlyReviewedTools
<1> SUFFICES ASSUME ConfigInv
             PROVE  F!TypeOK /\ F!NothingOverwritten /\ F!OnlyReviewedTools
  OBVIOUS
<1>1. F!TypeOK /\ F!NothingOverwritten
  BY DEF ConfigInv, F!TypeOK, F!NothingOverwritten
<1>2. F!OnlyReviewedTools
  BY DEF ConfigInv, Sound, Reviewed, F!OnlyReviewedTools
<1>. QED  BY <1>1, <1>2

-----------------------------------------------------------------------------
(* The boot of the configuration                                           *)

(* Where the start of a process is.                                        *)
BootPcs == {"idle", "prune", "initialize", "refused", "setup",
            "root", "backfill", "load", "running", "safe mode"}

(* Types of the boot, with the values that the steps need.                 *)
BootTypes ==
    /\ doc \in B!ConfigDocs \cup {None}
    /\ bootRan \in {None, "here", "/data"} /\ creations \in Nat /\ docEdits \in Nat
    /\ boot \in [Boots -> BootPcs]
    /\ accepted \in BOOLEAN /\ artifacts \in BOOLEAN /\ headless \in BOOLEAN
    /\ keys \in BOOLEAN

(* Who is past the check finds a document, whose retired calendar is gone  *)
(* once the root is looked at.                                             *)
BootDocInv ==
    /\ B!CreatedOnce /\ (creations = 1 => doc # None)
    /\ \A b \in Boots :
          /\ boot[b] = "root" => doc.calendar = "none" /\ ~doc.retired
          /\ boot[b] \in {"prune", "root", "backfill", "load", "running", "safe mode"} => doc # None
    /\ doc # None => (doc.calendar = "own" => doc.timezone # "UTC")

(* What the editor took still loads, whatever upgrades and setters have    *)
(* written since.                                                          *)
AcceptedInv == accepted => doc # None /\ B!LoadConfig(doc)

(* The inductive invariant of the boot.                                    *)
BootInv == BootTypes /\ BootDocInv /\ AcceptedInv

(* What the parts of a document are.                                       *)
LEMMA DocParts ==
  ASSUME NEW d \in B!ConfigDocs
  PROVE  /\ d # None
         /\ d.dataDir \in {"unset", "here", "/data"}
         /\ d.root \in {"unset", "tmp", "here", "/data"}
         /\ d.timezone \in {"unset", "own", "UTC"} /\ d.calendar \in {"none", "silent", "own"}
         /\ d.tracing \in {"none", "on", "off", "empty"} /\ d.retired \in BOOLEAN
         /\ d.hours \in {None} \cup {h \in B!Hours : h.start # h.end}
         /\ d.keyed \in BOOLEAN
  BY BootAssumption DEF B!ConfigDocs, B!Homes

(* A document stays one when a field is given a value of its own. *)
LEMMA DocExcept ==
  ASSUME NEW d \in B!ConfigDocs
  PROVE  /\ \A v \in B!Homes : [d EXCEPT !.dataDir = v] \in B!ConfigDocs
         /\ \A v \in {"none", "on", "off", "empty"} :
               [d EXCEPT !.tracing = v] \in B!ConfigDocs
         /\ \A v \in {"unset", "own", "UTC"} :
               [d EXCEPT !.timezone = v] \in B!ConfigDocs
         /\ \A v \in {"unset", "tmp", "here", "/data"} :
               [d EXCEPT !.root = v] \in B!ConfigDocs
         /\ \A v \in {None} \cup {h \in B!Hours : h.start # h.end} :
               [d EXCEPT !.hours = v] \in B!ConfigDocs
  BY DEF B!ConfigDocs

(* What the defaults make of a document. *)
LEMMA Defaulted ==
  ASSUME NEW d \in B!ConfigDocs, NEW home \in {"here", "/data"}
  PROVE  LET n == B!ApplyDefaults(d, home)
         IN /\ n \in B!ConfigDocs
            /\ n.dataDir = (IF d.dataDir = "unset" THEN home ELSE d.dataDir)
            /\ n.root = (IF d.root = "unset" THEN n.dataDir ELSE d.root)
            /\ n.timezone = (IF d.timezone = "unset" THEN "UTC" ELSE d.timezone)
            /\ n.tracing = (IF d.tracing \in {"none", "empty"} THEN "on" ELSE d.tracing)
            /\ n.calendar = d.calendar /\ n.retired = d.retired
            /\ n.hours = d.hours /\ n.keyed = d.keyed
<1> DEFINE dir == B!Else(d.dataDir, home)
           root_1 == B!Else(d.root, dir)
           zone == B!Else(d.timezone, "UTC")
           tracing_1 == IF d.tracing \in {"none", "empty"} THEN "on" ELSE d.tracing
           n == [d EXCEPT !.dataDir = dir, !.root = root_1, !.timezone = zone,
                          !.tracing = tracing_1]
<1>1. /\ dir \in {"here", "/data"}
      /\ dir = (IF d.dataDir = "unset" THEN home ELSE d.dataDir)
      /\ root_1 \in {"tmp", "here", "/data"}
      /\ root_1 = (IF d.root = "unset" THEN dir ELSE d.root)
      /\ zone \in {"own", "UTC"}
      /\ zone = (IF d.timezone = "unset" THEN "UTC" ELSE d.timezone)
      /\ tracing_1 \in {"on", "off"}
  BY DocParts DEF B!Else
<1>2. B!ApplyDefaults(d, home) = n
  BY DEF B!ApplyDefaults, B!ConfigDocs
<1> HIDE DEF dir, root_1, zone, tracing_1
<1>3. /\ n.dataDir = dir /\ n.root = root_1 /\ n.timezone = zone
      /\ n.tracing = tracing_1 /\ n.calendar = d.calendar
      /\ n.retired = d.retired /\ n.hours = d.hours /\ n.keyed = d.keyed
  BY DEF B!ConfigDocs
<1>4. n \in B!ConfigDocs
  <2> DEFINE d1 == [d EXCEPT !.dataDir = dir]
             d2 == [d1 EXCEPT !.root = root_1]
             d3 == [d2 EXCEPT !.timezone = zone]
             d4 == [d3 EXCEPT !.tracing = tracing_1]
  <2>1. d1 \in B!ConfigDocs
    BY <1>1, DocExcept DEF B!Homes
  <2> HIDE DEF d1
  <2>2. d2 \in B!ConfigDocs
    BY <1>1, <2>1, DocExcept
  <2> HIDE DEF d2
  <2>3. d3 \in B!ConfigDocs
    BY <1>1, <2>2, DocExcept
  <2> HIDE DEF d3
  <2>4. d4 \in B!ConfigDocs
    BY <1>1, <2>3, DocExcept
  <2>5. n = d4
    BY DEF d1, d2, d3, d4
  <2>. QED  BY <2>4, <2>5
<1> HIDE DEF n
<1>. QED  BY <1>1, <1>2, <1>3, <1>4 DEF tracing_1

(* The documents of a first boot and of earlier builds load, or can be     *)
(* upgraded.                                                               *)
LEMMA FirstDocs ==
  /\ B!First \in B!ConfigDocs /\ B!First.calendar = "none" /\ ~B!First.retired
  /\ B!ApplyDefaults(B!First, "here") \in B!ConfigDocs
  /\ B!ApplyDefaults(B!First, "here").calendar = "none"
  /\ B!Older \subseteq B!ConfigDocs
  /\ \A d \in B!Older : d.timezone # "UTC"
  /\ B!Candidates \subseteq B!ConfigDocs
  /\ \A d \in B!Candidates : d.timezone # "UTC"
<1>1. B!First \in B!ConfigDocs
  BY DEF B!First, B!ConfigDocs, B!Homes
<1>2. B!First.calendar = "none" /\ ~B!First.retired
  BY DEF B!First
<1>3. B!ApplyDefaults(B!First, "here").calendar = B!First.calendar
  BY <1>1, Defaulted
<1>4. B!ApplyDefaults(B!First, "here") \in B!ConfigDocs
  BY <1>1, Defaulted
<1>5. ASSUME NEW d \in B!Older PROVE d \in B!ConfigDocs /\ d.timezone # "UTC"
  <2>1. PICK h \in {"unset", "here"}, r \in {"unset", "tmp", "here"},
             z \in {"unset", "own"}, c \in {"none", "silent", "own"},
             t \in {"none", "off", "empty"} :
               d = [B!First EXCEPT !.dataDir = h, !.root = r, !.timezone = z,
                                   !.calendar = c, !.tracing = t,
                                   !.retired = (c # "none"), !.keyed = FALSE]
    BY DEF B!Older
  <2>2. d = [dataDir |-> h, root |-> r, timezone |-> z, calendar |-> c,
             tracing |-> t, retired |-> (c # "none"), hours |-> None, keyed |-> FALSE]
    BY <2>1 DEF B!First
  <2>3. (c # "none") \in BOOLEAN
    OBVIOUS
  <2>. QED  BY <2>2, <2>3 DEF B!ConfigDocs, B!Homes
<1> DEFINE candidate(h, r, c, k) ==
             [B!First EXCEPT !.dataDir = h, !.root = r, !.calendar = c, !.keyed = k]
<1>6. ASSUME NEW h \in B!Homes, NEW r \in {"unset", "here", "/data"},
             NEW c \in {"none", "own"}, NEW k \in BOOLEAN,
             NEW d, d = candidate(h, r, c, k)
      PROVE  d \in B!ConfigDocs /\ d.timezone # "UTC"
  <2>. d = [dataDir |-> h, root |-> r, timezone |-> "own", calendar |-> c,
            tracing |-> "none", retired |-> FALSE, hours |-> None, keyed |-> k]
    BY <1>6 DEF B!First
  <2>. QED  BY DEF B!ConfigDocs, B!Homes
<1>7. B!Candidates = {candidate(h, r, c, k) :
                        h \in B!Homes, r \in {"unset", "here", "/data"},
                        c \in {"none", "own"}, k \in BOOLEAN}
  BY DEF B!Candidates
<1> HIDE DEF candidate
<1>8. \A d \in B!Candidates : d \in B!ConfigDocs /\ d.timezone # "UTC"
  BY <1>6, <1>7
<1>. QED  BY <1>1, <1>2, <1>3, <1>4, <1>5, <1>8

(* What the sweep of retired settings makes of a document. *)
LEMMA Pruned ==
  ASSUME NEW d \in B!ConfigDocs, NEW zone \in {"unset", "own", "UTC"}
  PROVE  LET n == [d EXCEPT !.timezone = zone, !.calendar = "none", !.retired = FALSE]
         IN /\ n \in B!ConfigDocs /\ n.timezone = zone /\ n.calendar = "none"
            /\ ~n.retired /\ n.dataDir = d.dataDir /\ n.root = d.root
            /\ n.tracing = d.tracing /\ n.hours = d.hours /\ n.keyed = d.keyed
<1> DEFINE d1 == [d EXCEPT !.timezone = zone]
           d2 == [d1 EXCEPT !.calendar = "none"]
           d3 == [d2 EXCEPT !.retired = FALSE]
<1>1. /\ d1 \in B!ConfigDocs /\ d1.timezone = zone
      /\ d1.dataDir = d.dataDir /\ d1.root = d.root
      /\ d1.tracing = d.tracing /\ d1.hours = d.hours /\ d1.keyed = d.keyed
  BY DocExcept DEF B!ConfigDocs
<1> HIDE DEF d1
<1>2. /\ d2 \in B!ConfigDocs /\ d2.timezone = zone /\ d2.calendar = "none"
      /\ d2.dataDir = d.dataDir /\ d2.root = d.root
      /\ d2.tracing = d.tracing /\ d2.hours = d.hours /\ d2.keyed = d.keyed
  BY <1>1 DEF B!ConfigDocs
<1> HIDE DEF d2
<1>3. /\ d3 \in B!ConfigDocs /\ d3.timezone = zone /\ d3.calendar = "none"
      /\ ~d3.retired /\ d3.dataDir = d.dataDir /\ d3.root = d.root
      /\ d3.tracing = d.tracing /\ d3.hours = d.hours /\ d3.keyed = d.keyed
  BY <1>2 DEF B!ConfigDocs
<1> HIDE DEF d3
<1>4. [d EXCEPT !.timezone = zone, !.calendar = "none", !.retired = FALSE] = d3
  BY DEF d1, d2, d3
<1>. QED  BY <1>3, <1>4

(* Every step of a start and every edit keep the types,                    *)
LEMMA BootTypesKept == BootInv /\ B!Next => BootTypes'
<1> SUFFICES ASSUME BootInv, B!Next PROVE BootTypes'
  OBVIOUS
<1> USE BootAssumption DEF B!Goes
<1>0. BootTypes /\ BootDocInv /\ AcceptedInv
  BY DEF BootInv
<1>1. ASSUME NEW b \in Boots, B!StatConfig(b) PROVE BootTypes'
  BY <1>0, <1>1 DEF B!StatConfig, BootTypes, BootPcs
<1>2. ASSUME NEW b \in Boots, B!InitializeConfig(b) PROVE BootTypes'
  <2>1. doc' \in B!ConfigDocs \cup {None}
    BY <1>0, <1>2, FirstDocs DEF B!InitializeConfig, B!Create, BootTypes
  <2>2. /\ accepted' \in BOOLEAN /\ artifacts' \in BOOLEAN
        /\ headless' \in BOOLEAN /\ keys' \in BOOLEAN
    BY <1>0, <1>2 DEF B!InitializeConfig, B!Create, BootTypes
  <2>3. /\ bootRan' \in {None, "here", "/data"}
        /\ creations' \in Nat /\ docEdits' \in Nat
    BY <1>0, <1>2 DEF B!InitializeConfig, B!Create, BootTypes
  <2>4. boot' \in [Boots -> BootPcs]
    BY <1>0, <1>2 DEF B!InitializeConfig, B!Create, BootTypes, BootPcs
  <2>. QED  BY <2>1, <2>2, <2>3, <2>4 DEF BootTypes
<1>3. ASSUME NEW b \in Boots, B!CompleteSetup(b) PROVE BootTypes'
  <2>1. doc' \in B!ConfigDocs \cup {None}
    BY <1>0, <1>3, FirstDocs DEF B!CompleteSetup, B!Create, BootTypes
  <2>2. /\ accepted' \in BOOLEAN /\ artifacts' \in BOOLEAN
        /\ headless' \in BOOLEAN /\ keys' \in BOOLEAN
    BY <1>0, <1>3 DEF B!CompleteSetup, B!Create, BootTypes
  <2>3. /\ bootRan' \in {None, "here", "/data"}
        /\ creations' \in Nat /\ docEdits' \in Nat
    BY <1>0, <1>3 DEF B!CompleteSetup, B!Create, BootTypes
  <2>4. boot' \in [Boots -> BootPcs]
    BY <1>0, <1>3 DEF B!CompleteSetup, B!Create, BootTypes, BootPcs
  <2>. QED  BY <2>1, <2>2, <2>3, <2>4 DEF BootTypes
<1>4. ASSUME NEW b \in Boots, B!PruneRetiredFields(b) PROVE BootTypes'
  <2>1. doc' \in B!ConfigDocs \cup {None}
    <3>1. doc \in B!ConfigDocs
      BY <1>0, <1>4 DEF B!PruneRetiredFields, BootTypes, BootDocInv
    <3>2. B!CarryOverCalendarTimezone(doc) \in {"unset", "own", "UTC"}
      BY <3>1, DocParts DEF B!CarryOverCalendarTimezone
    <3>. QED  BY <1>4, <3>1, <3>2, Pruned DEF B!PruneRetiredFields
  <2>2. /\ accepted' \in BOOLEAN /\ artifacts' \in BOOLEAN
        /\ headless' \in BOOLEAN /\ keys' \in BOOLEAN
    BY <1>0, <1>4 DEF B!PruneRetiredFields, BootTypes
  <2>3. /\ bootRan' \in {None, "here", "/data"}
        /\ creations' \in Nat /\ docEdits' \in Nat
    BY <1>0, <1>4 DEF B!PruneRetiredFields, BootTypes
  <2>4. boot' \in [Boots -> BootPcs]
    BY <1>0, <1>4 DEF B!PruneRetiredFields, BootTypes, BootPcs
  <2>. QED  BY <2>1, <2>2, <2>3, <2>4 DEF BootTypes
<1>5. ASSUME NEW b \in Boots, B!MigrateLegacyRunnerRoot(b) PROVE BootTypes'
  <2>1. doc' \in B!ConfigDocs \cup {None}
    <3>1. doc \in B!ConfigDocs
      BY <1>0, <1>5 DEF B!MigrateLegacyRunnerRoot, BootTypes, BootDocInv
    <3>2. B!LoadDocument(doc) \in B!ConfigDocs
      BY <3>1, Defaulted DEF B!LoadDocument
    <3>3. B!LoadDocument(doc).dataDir \in {"unset", "tmp", "here", "/data"}
      BY <3>2, DocParts
    <3>. QED  BY <1>5, <3>1, <3>2, <3>3, DocExcept DEF B!MigrateLegacyRunnerRoot
  <2>2. /\ accepted' \in BOOLEAN /\ artifacts' \in BOOLEAN
        /\ headless' \in BOOLEAN /\ keys' \in BOOLEAN
    BY <1>0, <1>5 DEF B!MigrateLegacyRunnerRoot, BootTypes
  <2>3. /\ bootRan' \in {None, "here", "/data"}
        /\ creations' \in Nat /\ docEdits' \in Nat
    BY <1>0, <1>5 DEF B!MigrateLegacyRunnerRoot, BootTypes
  <2>4. boot' \in [Boots -> BootPcs]
    BY <1>0, <1>5 DEF B!MigrateLegacyRunnerRoot, BootTypes, BootPcs
  <2>. QED  BY <2>1, <2>2, <2>3, <2>4 DEF BootTypes
<1>6. ASSUME NEW b \in Boots, B!BackfillDefaultedSections(b) PROVE BootTypes'
  <2>1. doc' \in B!ConfigDocs \cup {None}
    <3>1. doc \in B!ConfigDocs
      BY <1>0, <1>6 DEF B!BackfillDefaultedSections, BootTypes, BootDocInv
    <3>2. B!Backfilled(doc.tracing) \in {"none", "on", "off", "empty"}
      BY <3>1, DocParts DEF B!Backfilled
    <3>. QED  BY <1>6, <3>1, <3>2, DocExcept DEF B!BackfillDefaultedSections
  <2>2. /\ accepted' \in BOOLEAN /\ artifacts' \in BOOLEAN
        /\ headless' \in BOOLEAN /\ keys' \in BOOLEAN
    BY <1>0, <1>6 DEF B!BackfillDefaultedSections, BootTypes
  <2>3. /\ bootRan' \in {None, "here", "/data"}
        /\ creations' \in Nat /\ docEdits' \in Nat
    BY <1>0, <1>6 DEF B!BackfillDefaultedSections, BootTypes
  <2>4. boot' \in [Boots -> BootPcs]
    BY <1>0, <1>6 DEF B!BackfillDefaultedSections, BootTypes, BootPcs
  <2>. QED  BY <2>1, <2>2, <2>3, <2>4 DEF BootTypes
<1>7. ASSUME NEW b \in Boots, B!Start(b) PROVE BootTypes'
  <2>1. doc # None => B!ApplyDefaults(doc, "here").dataDir \in {"here", "/data"}
    BY <1>0, Defaulted, DocParts DEF BootTypes
  <2>2. doc # None
    BY <1>0, <1>7 DEF B!Start, BootDocInv
  <2>. QED  BY <1>0, <1>7, <2>1, <2>2 DEF B!Start, BootTypes, BootPcs
<1>8. ASSUME NEW b \in Boots, B!Ends(b) PROVE BootTypes'
  BY <1>0, <1>8 DEF B!Ends, BootTypes, BootPcs
<1>9. CASE B!Setter
  <2>1. doc' \in B!ConfigDocs \cup {None}
    BY <1>0, <1>9, Defaulted DEF B!Setter, B!Written, B!LoadDocument, BootTypes
  <2>2. /\ accepted' \in BOOLEAN /\ artifacts' \in BOOLEAN
        /\ headless' \in BOOLEAN /\ keys' \in BOOLEAN
    BY <1>0, <1>9 DEF B!Setter, B!Edit, BootTypes
  <2>3. /\ bootRan' \in {None, "here", "/data"}
        /\ creations' \in Nat /\ docEdits' \in Nat
    BY <1>0, <1>9 DEF B!Setter, B!Edit, BootTypes
  <2>4. boot' \in [Boots -> BootPcs]
    BY <1>0, <1>9 DEF B!Setter, B!Edit, BootTypes, BootPcs
  <2>. QED  BY <2>1, <2>2, <2>3, <2>4 DEF BootTypes
<1>10. CASE B!SetHeartbeat
  <2>1. doc' \in B!ConfigDocs \cup {None}
    <3>1. PICK h \in {None} \cup B!Hours :
              B!ValidHours(h) /\ doc' = B!LoadDocument([doc EXCEPT !.hours = h])
      BY <1>10 DEF B!SetHeartbeat, B!Written
    <3>2. doc \in B!ConfigDocs
      BY <1>0, <1>10 DEF B!SetHeartbeat, BootTypes
    <3>3. h \in {None} \cup {k \in B!Hours : k.start # k.end}
      BY <3>1 DEF B!ValidHours
    <3>4. [doc EXCEPT !.hours = h] \in B!ConfigDocs
      BY <3>2, <3>3, DocExcept
    <3>. QED  BY <3>1, <3>4, Defaulted DEF B!LoadDocument
  <2>2. /\ accepted' \in BOOLEAN /\ artifacts' \in BOOLEAN
        /\ headless' \in BOOLEAN /\ keys' \in BOOLEAN
    BY <1>0, <1>10 DEF B!SetHeartbeat, B!Edit, BootTypes
  <2>3. /\ bootRan' \in {None, "here", "/data"}
        /\ creations' \in Nat /\ docEdits' \in Nat
    BY <1>0, <1>10 DEF B!SetHeartbeat, B!Edit, BootTypes
  <2>4. boot' \in [Boots -> BootPcs]
    BY <1>0, <1>10 DEF B!SetHeartbeat, B!Edit, BootTypes, BootPcs
  <2>. QED  BY <2>1, <2>2, <2>3, <2>4 DEF BootTypes
<1>11. CASE B!ReplaceConfig
  <2>1. doc' \in B!ConfigDocs \cup {None}
    BY <1>11, FirstDocs DEF B!ReplaceConfig
  <2>2. /\ accepted' \in BOOLEAN /\ artifacts' \in BOOLEAN
        /\ headless' \in BOOLEAN /\ keys' \in BOOLEAN
    BY <1>0, <1>11 DEF B!ReplaceConfig, B!Edit, BootTypes
  <2>3. /\ bootRan' \in {None, "here", "/data"}
        /\ creations' \in Nat /\ docEdits' \in Nat
    BY <1>0, <1>11 DEF B!ReplaceConfig, B!Edit, BootTypes
  <2>4. boot' \in [Boots -> BootPcs]
    BY <1>0, <1>11 DEF B!ReplaceConfig, B!Edit, BootTypes, BootPcs
  <2>. QED  BY <2>1, <2>2, <2>3, <2>4 DEF BootTypes
<1>. QED
  BY <1>1, <1>2, <1>3, <1>4, <1>5, <1>6, <1>7, <1>8, <1>9, <1>10, <1>11
  DEF B!Next

(* leave a document to who is past the check,                              *)
LEMMA BootDocKept == BootInv /\ B!Next => BootDocInv'
<1> SUFFICES ASSUME BootInv, B!Next PROVE BootDocInv'
  OBVIOUS
<1> USE BootAssumption DEF B!Goes
<1>0. BootTypes /\ BootDocInv /\ AcceptedInv
  BY DEF BootInv
<1>1. ASSUME NEW b \in Boots, B!StatConfig(b) PROVE BootDocInv'
  BY <1>0, <1>1 DEF B!StatConfig, BootDocInv, B!CreatedOnce, BootTypes, BootPcs
<1>2. ASSUME NEW b \in Boots, B!InitializeConfig(b) PROVE BootDocInv'
  <2>1. /\ doc # None => doc' = doc /\ creations' = creations
        /\ doc = None => /\ doc' \in {None, B!First}
                         /\ doc' = B!First => creations' = creations + 1
                         /\ doc' = None => creations' = creations
    BY <1>2, FirstDocs, DocParts DEF B!InitializeConfig, B!Create, B!StillMissing
  <2>2. B!First # None /\ B!First.calendar = "none"
    BY FirstDocs, DocParts
  <2>3. \A b_1 \in Boots : boot'[b_1] = boot[b_1] \/ (b_1 = b /\ boot'[b] \in {"backfill", "refused", "idle"})
    BY <1>0, <1>2 DEF B!InitializeConfig, BootTypes
  <2>4. boot'[b] = "backfill" => doc' # None
    BY <1>0, <1>2, <2>1, <2>2 DEF B!InitializeConfig, B!Create, B!StillMissing, BootTypes
  <2>5. BootDocInv' 
    <3>1. creations <= 1 /\ creations \in Nat /\ (creations = 1 => doc # None)
      BY <1>0 DEF BootDocInv, BootTypes, B!CreatedOnce
    <3>2. B!CreatedOnce' /\ (creations' = 1 => doc' # None)
      BY <2>1, <2>2, <3>1 DEF B!CreatedOnce
    <3>. QED  BY <1>0, <2>1, <2>2, <2>3, <2>4, <3>2 DEF BootDocInv
  <2>. QED  BY <2>5
<1>3. ASSUME NEW b \in Boots, B!CompleteSetup(b) PROVE BootDocInv'
  <2>1. /\ doc # None => doc' = doc /\ creations' = creations
        /\ doc = None => /\ doc' \in {None, B!ApplyDefaults(B!First, "here")}
                         /\ doc' = B!ApplyDefaults(B!First, "here") => creations' = creations + 1
                         /\ doc' = None => creations' = creations
    BY <1>3, FirstDocs, DocParts DEF B!CompleteSetup, B!Create, B!StillMissing
  <2>2. B!ApplyDefaults(B!First, "here") # None /\ B!ApplyDefaults(B!First, "here").calendar = "none"
    BY FirstDocs, DocParts
  <2>3. \A b_1 \in Boots : boot'[b_1] = boot[b_1] \/ (b_1 = b /\ boot'[b] \in {"backfill", "refused", "idle"})
    BY <1>0, <1>3 DEF B!CompleteSetup, BootTypes
  <2>4. boot'[b] = "backfill" => doc' # None
    BY <1>0, <1>3, <2>1, <2>2 DEF B!CompleteSetup, B!Create, B!StillMissing, BootTypes
  <2>5. BootDocInv' 
    <3>1. creations <= 1 /\ creations \in Nat /\ (creations = 1 => doc # None)
      BY <1>0 DEF BootDocInv, BootTypes, B!CreatedOnce
    <3>2. B!CreatedOnce' /\ (creations' = 1 => doc' # None)
      BY <2>1, <2>2, <3>1 DEF B!CreatedOnce
    <3>. QED  BY <1>0, <2>1, <2>2, <2>3, <2>4, <3>2 DEF BootDocInv
  <2>. QED  BY <2>5
<1>4. ASSUME NEW b \in Boots, B!PruneRetiredFields(b) PROVE BootDocInv'
  <2>1. doc \in B!ConfigDocs
    BY <1>0, <1>4 DEF B!PruneRetiredFields, BootTypes, BootDocInv
  <2>2. B!CarryOverCalendarTimezone(doc) \in {"unset", "own", "UTC"}
    BY <2>1, DocParts DEF B!CarryOverCalendarTimezone
  <2>3. /\ doc' \in B!ConfigDocs /\ doc'.calendar = "none" /\ ~doc'.retired
    BY <1>4, <2>1, <2>2, Pruned DEF B!PruneRetiredFields
  <2>4. doc' # None
    BY <2>3, DocParts
  <2>. QED
    BY <1>0, <1>4, <2>3, <2>4
    DEF B!PruneRetiredFields, BootDocInv, B!CreatedOnce, BootTypes, BootPcs
<1>5. ASSUME NEW b \in Boots, B!MigrateLegacyRunnerRoot(b) PROVE BootDocInv'
  <2>1. doc \in B!ConfigDocs
    BY <1>0, <1>5 DEF B!MigrateLegacyRunnerRoot, BootTypes, BootDocInv
  <2> DEFINE d == B!LoadDocument(doc)
  <2>2. /\ d \in B!ConfigDocs /\ d.calendar = doc.calendar /\ d.retired = doc.retired
        /\ [d EXCEPT !.root = d.dataDir] \in B!ConfigDocs
        /\ [d EXCEPT !.root = d.dataDir].calendar = d.calendar
        /\ [d EXCEPT !.root = d.dataDir].retired = d.retired
    <3>1. d \in B!ConfigDocs /\ d.calendar = doc.calendar /\ d.retired = doc.retired
      BY <2>1, Defaulted DEF B!LoadDocument
    <3> HIDE DEF d
    <3>2. d.dataDir \in {"unset", "tmp", "here", "/data"}
      BY <3>1, DocParts
    <3>3. [d EXCEPT !.root = d.dataDir] \in B!ConfigDocs
      BY <3>1, <3>2, DocExcept
    <3>. QED  BY <3>1, <3>3 DEF B!ConfigDocs
  <2>3. doc.calendar = "none" /\ ~doc.retired
    BY <1>0, <1>5 DEF B!MigrateLegacyRunnerRoot, BootDocInv
  <2>4. doc' \in B!ConfigDocs /\ doc'.calendar = "none" /\ ~doc'.retired
    BY <1>5, <2>1, <2>2, <2>3 DEF B!MigrateLegacyRunnerRoot
  <2>5. doc' # None
    BY <2>4, DocParts
  <2>. QED
    BY <1>0, <1>5, <2>4, <2>5
    DEF B!MigrateLegacyRunnerRoot, BootDocInv, B!CreatedOnce, BootTypes, BootPcs
<1>6. ASSUME NEW b \in Boots, B!BackfillDefaultedSections(b) PROVE BootDocInv'
  <2>1. doc \in B!ConfigDocs
    BY <1>0, <1>6 DEF B!BackfillDefaultedSections, BootTypes, BootDocInv
  <2>2. /\ doc' # None /\ doc'.calendar = doc.calendar
        /\ doc'.retired = doc.retired /\ doc'.timezone = doc.timezone
    <3>1. B!Backfilled(doc.tracing) \in {"none", "on", "off", "empty"}
      BY <2>1, DocParts DEF B!Backfilled
    <3>2. doc' \in B!ConfigDocs
      BY <1>6, <2>1, <3>1, DocExcept DEF B!BackfillDefaultedSections
    <3>. QED  BY <1>6, <2>1, <3>2, DocParts DEF B!BackfillDefaultedSections, B!ConfigDocs
  <2>. QED
    BY <1>0, <1>6, <2>2
    DEF B!BackfillDefaultedSections, BootDocInv, B!CreatedOnce, BootTypes, BootPcs
<1>7. ASSUME NEW b \in Boots, B!Start(b) PROVE BootDocInv'
  BY <1>0, <1>7 DEF B!Start, BootDocInv, B!CreatedOnce, BootTypes, BootPcs
<1>8. ASSUME NEW b \in Boots, B!Ends(b) PROVE BootDocInv'
  BY <1>0, <1>8 DEF B!Ends, BootDocInv, B!CreatedOnce, BootTypes, BootPcs
<1>9. CASE B!Setter
  <2>1. doc \in B!ConfigDocs
    BY <1>0, <1>9 DEF B!Setter, BootTypes, BootDocInv
  <2>2. /\ doc' # None /\ doc'.calendar = "none" /\ ~doc'.retired
    BY <1>9, <2>1, Defaulted, DocParts DEF B!Setter, B!Written, B!LoadDocument
  <2>. QED
    BY <1>0, <1>9, <2>2 DEF B!Setter, BootDocInv, B!CreatedOnce, BootTypes
<1>10. CASE B!SetHeartbeat
  <2>1. doc \in B!ConfigDocs
    BY <1>0, <1>10 DEF B!SetHeartbeat, BootTypes, BootDocInv
  <2>2. PICK h \in {None} \cup B!Hours :
            B!ValidHours(h) /\ doc' = B!LoadDocument([doc EXCEPT !.hours = h])
    BY <1>10 DEF B!SetHeartbeat, B!Written
  <2> DEFINE d == [doc EXCEPT !.hours = h]
  <2>3. h \in {None} \cup {k \in B!Hours : k.start # k.end}
    BY <2>2 DEF B!ValidHours
  <2>4. d \in B!ConfigDocs /\ d.calendar = doc.calendar /\ d.retired = doc.retired
    <3>1. d \in B!ConfigDocs
      BY <2>1, <2>3, DocExcept
    <3>. QED  BY <2>1, <3>1 DEF B!ConfigDocs
  <2> HIDE DEF d
  <2>5. /\ doc' # None /\ doc'.calendar = "none" /\ ~doc'.retired
    BY <1>10, <2>2, <2>4, Defaulted, DocParts DEF B!SetHeartbeat, B!LoadDocument, d
  <2>. QED
    BY <1>0, <1>10, <2>5 DEF B!SetHeartbeat, BootDocInv, B!CreatedOnce, BootTypes
<1>11. CASE B!ReplaceConfig
  <2>1. doc' # None /\ doc'.timezone # "UTC"
    BY <1>11, FirstDocs, DocParts DEF B!ReplaceConfig
  <2>2. doc'.calendar = "none" /\ ~doc'.retired
    BY <1>11, FirstDocs, DocParts DEF B!ReplaceConfig, B!Accepted, B!LoadConfig
  <2>. QED
    BY <1>0, <1>11, <2>1, <2>2 DEF B!ReplaceConfig, BootDocInv, B!CreatedOnce, BootTypes
<1>. QED
  BY <1>1, <1>2, <1>3, <1>4, <1>5, <1>6, <1>7, <1>8, <1>9, <1>10, <1>11
  DEF B!Next

(* Two documents that start where one does. *)
LEMMA LoadsAlike ==
  ASSUME NEW d \in B!ConfigDocs, NEW e \in B!ConfigDocs, B!LoadConfig(d),
         e.retired = d.retired, e.calendar = d.calendar, e.hours = d.hours,
         e.keyed = d.keyed,
         B!ApplyDefaults(e, "here").dataDir = B!ApplyDefaults(e, "here").root
  PROVE  B!LoadConfig(e)
<1> DEFINE n == B!ApplyDefaults(d, "here")
           m == B!ApplyDefaults(e, "here")
<1>1. n.hours = d.hours /\ m.hours = e.hours
  BY Defaulted
<1>. QED  BY <1>1 DEF B!LoadConfig, B!Validate, B!PathWithin, B!Secrets

(* A document that keeps its homes and its hours loads as before.          *)
LEMMA LoadsWhereItWas ==
  ASSUME NEW d \in B!ConfigDocs, NEW e \in B!ConfigDocs, B!LoadConfig(d),
         e.retired = d.retired, e.calendar = d.calendar, e.hours = d.hours,
         e.keyed = d.keyed, e.dataDir = d.dataDir, e.root = d.root
  PROVE  B!LoadConfig(e)
<1> DEFINE n == B!ApplyDefaults(d, "here")
           m == B!ApplyDefaults(e, "here")
<1>1. m.dataDir = n.dataDir /\ m.root = n.root
  BY Defaulted
<1>2. n.root = n.dataDir
  BY DEF B!LoadConfig, B!Validate, B!PathWithin
<1>. QED  BY <1>1, <1>2, LoadsAlike

(* A document that the raw editor could have taken stays one with the      *)
(* defaults of a load written out.                                         *)
LEMMA LoadsWhenWritten ==
  ASSUME NEW d \in B!ConfigDocs, B!LoadConfig(d),
         B!Validate(B!LoadDocument(d)),
         NEW h \in {None} \cup {k \in B!Hours : k.start # k.end},
         B!ValidHours(h)
  PROVE  B!LoadConfig(B!LoadDocument([d EXCEPT !.hours = h]))
<1> DEFINE e == [d EXCEPT !.hours = h]
           n == B!ApplyDefaults(e, "/data")
           m == B!ApplyDefaults(n, "here")
<1>1. e \in B!ConfigDocs
  BY DocExcept
<1>2. /\ e.dataDir = d.dataDir /\ e.root = d.root /\ e.hours = h
      /\ e.retired = d.retired /\ e.calendar = d.calendar /\ e.keyed = d.keyed
  BY DEF B!ConfigDocs
<1> HIDE DEF e
<1>3. /\ n \in B!ConfigDocs /\ n.hours = h /\ n.keyed = d.keyed
      /\ n.retired = d.retired /\ n.calendar = d.calendar
      /\ n.dataDir # "unset" /\ n.root # "unset"
  BY <1>1, <1>2, Defaulted, DocParts
<1>4. n.dataDir = n.root
  <2>1. B!LoadDocument(d).dataDir = B!LoadDocument(d).root
    BY DEF B!Validate, B!PathWithin
  <2>. QED  BY <1>1, <1>2, <2>1, Defaulted DEF B!LoadDocument
<1> HIDE DEF n
<1>5. m.dataDir = n.dataDir /\ m.root = n.root /\ m.hours = h
  BY <1>3, Defaulted
<1> HIDE DEF m
<1>6. B!LoadConfig(n)
  BY <1>3, <1>4, <1>5 DEF B!LoadConfig, B!Validate, B!PathWithin, B!Secrets, m
<1>. QED  BY <1>6 DEF n, e, B!LoadDocument

(* and leave what the editor took one that loads.                          *)
LEMMA AcceptedKept == BootInv /\ B!Next => AcceptedInv'
<1> SUFFICES ASSUME BootInv, B!Next PROVE AcceptedInv'
  OBVIOUS
<1> USE BootAssumption DEF B!Goes
<1>0. BootTypes /\ BootDocInv /\ AcceptedInv
  BY DEF BootInv
<1>1. ASSUME NEW b \in Boots, B!StatConfig(b) PROVE AcceptedInv'
  BY <1>0, <1>1 DEF B!StatConfig, AcceptedInv, B!LoadConfig, B!Secrets
<1>2. ASSUME NEW b \in Boots, B!InitializeConfig(b) PROVE AcceptedInv'
  <2>1. /\ accepted' = accepted /\ keys' = keys
        /\ doc # None => doc' = doc
    BY <1>2 DEF B!InitializeConfig, B!Create, B!StillMissing
  <2>. QED  BY <1>0, <2>1 DEF AcceptedInv, B!LoadConfig, B!Secrets
<1>3. ASSUME NEW b \in Boots, B!CompleteSetup(b) PROVE AcceptedInv'
  <2>1. /\ accepted' = accepted /\ keys' = keys
        /\ doc # None => doc' = doc
    BY <1>3 DEF B!CompleteSetup, B!Create, B!StillMissing
  <2>. QED  BY <1>0, <2>1 DEF AcceptedInv, B!LoadConfig, B!Secrets
<1>4. ASSUME NEW b \in Boots, B!PruneRetiredFields(b) PROVE AcceptedInv'
  <2>1. doc \in B!ConfigDocs
    BY <1>0, <1>4 DEF B!PruneRetiredFields, BootTypes, BootDocInv
  <2> SUFFICES ASSUME accepted PROVE doc' # None /\ B!LoadConfig(doc)'
    BY <1>4 DEF B!PruneRetiredFields, AcceptedInv
  <2>2. B!LoadConfig(doc) /\ doc.calendar = "none" /\ ~doc.retired
    BY <1>0 DEF AcceptedInv, B!LoadConfig
  <2>3. B!CarryOverCalendarTimezone(doc) \in {"unset", "own", "UTC"}
    BY <2>1, DocParts DEF B!CarryOverCalendarTimezone
  <2> DEFINE zone == B!CarryOverCalendarTimezone(doc)
             n == [doc EXCEPT !.timezone = zone, !.calendar = "none",
                              !.retired = FALSE]
  <2>7. doc' = n
    BY <1>4 DEF B!PruneRetiredFields
  <2>8. /\ n \in B!ConfigDocs /\ n.calendar = "none" /\ ~n.retired
        /\ n.dataDir = doc.dataDir /\ n.root = doc.root
        /\ n.hours = doc.hours /\ n.keyed = doc.keyed
    <3>1. zone \in {"unset", "own", "UTC"}
      BY <2>3
    <3> HIDE DEF zone
    <3>. QED  BY ONLY <2>1, <3>1, Pruned
  <2> HIDE DEF n
  <2>9. n.retired \in BOOLEAN /\ doc.retired \in BOOLEAN
    BY <2>1, <2>8, DocParts
  <2>4. /\ doc' \in B!ConfigDocs /\ doc'.calendar = doc.calendar
        /\ doc'.retired = doc.retired
        /\ doc'.dataDir = doc.dataDir /\ doc'.root = doc.root
        /\ doc'.hours = doc.hours /\ doc'.keyed = doc.keyed
    BY <2>2, <2>7, <2>8, <2>9
  <2>5. B!LoadConfig(doc')
    BY <2>1, <2>2, <2>4, LoadsWhereItWas
  <2>6. keys' = keys
    BY <1>4 DEF B!PruneRetiredFields
  <2>. QED
    BY <2>4, <2>5, <2>6, DocParts DEF B!LoadConfig, B!Secrets
<1>5. ASSUME NEW b \in Boots, B!MigrateLegacyRunnerRoot(b) PROVE AcceptedInv'
  <2>1. doc \in B!ConfigDocs
    BY <1>0, <1>5 DEF B!MigrateLegacyRunnerRoot, BootTypes, BootDocInv
  <2> SUFFICES ASSUME accepted PROVE doc' # None /\ B!LoadConfig(doc)'
    BY <1>5 DEF B!MigrateLegacyRunnerRoot, AcceptedInv
  <2>2. B!LoadConfig(doc)
    BY <1>0 DEF AcceptedInv
  <2>3. doc.root # "tmp"
    <3>1. B!ApplyDefaults(doc, "here").dataDir = B!ApplyDefaults(doc, "here").root
      BY <2>2 DEF B!LoadConfig, B!Validate, B!PathWithin
    <3>. QED  BY <2>1, <3>1, Defaulted, DocParts
  <2>4. B!LoadDocument(doc).root # "tmp"
    BY <2>1, <2>3, Defaulted, DocParts DEF B!LoadDocument
  <2>5. doc' = doc /\ keys' = keys
    BY <1>5, <2>4 DEF B!MigrateLegacyRunnerRoot
  <2>. QED  BY <1>0, <2>2, <2>5 DEF AcceptedInv, B!LoadConfig, B!Secrets
<1>6. ASSUME NEW b \in Boots, B!BackfillDefaultedSections(b) PROVE AcceptedInv'
  <2>1. doc \in B!ConfigDocs
    BY <1>0, <1>6 DEF B!BackfillDefaultedSections, BootTypes, BootDocInv
  <2> SUFFICES ASSUME accepted PROVE doc' # None /\ B!LoadConfig(doc)'
    BY <1>6 DEF B!BackfillDefaultedSections, AcceptedInv
  <2>2. B!LoadConfig(doc)
    BY <1>0 DEF AcceptedInv
  <2>3. B!Backfilled(doc.tracing) \in {"none", "on", "off", "empty"}
    BY <2>1, DocParts DEF B!Backfilled
  <2>4. doc' \in B!ConfigDocs
    BY <1>6, <2>1, <2>3, DocExcept DEF B!BackfillDefaultedSections
  <2>5. /\ doc'.calendar = doc.calendar /\ doc'.retired = doc.retired
        /\ doc'.dataDir = doc.dataDir /\ doc'.root = doc.root
        /\ doc'.hours = doc.hours /\ doc'.keyed = doc.keyed /\ keys' = keys
    BY <1>6, <2>1 DEF B!BackfillDefaultedSections, B!ConfigDocs
  <2>6. B!LoadConfig(doc')
    BY <2>1, <2>2, <2>4, <2>5, LoadsWhereItWas
  <2>. QED
    BY <2>4, <2>5, <2>6, DocParts DEF B!LoadConfig, B!Secrets
<1>7. ASSUME NEW b \in Boots, B!Start(b) PROVE AcceptedInv'
  BY <1>0, <1>7 DEF B!Start, AcceptedInv, B!LoadConfig, B!Secrets
<1>8. ASSUME NEW b \in Boots, B!Ends(b) PROVE AcceptedInv'
  BY <1>0, <1>8 DEF B!Ends, AcceptedInv, B!LoadConfig, B!Secrets
<1>9. CASE B!Setter
  <2>1. doc \in B!ConfigDocs
    BY <1>0, <1>9 DEF B!Setter, BootTypes, BootDocInv
  <2> SUFFICES ASSUME accepted PROVE doc' # None /\ B!LoadConfig(doc)'
    BY <1>9 DEF B!Setter, AcceptedInv
  <2>2. B!LoadConfig(doc)
    BY <1>0 DEF AcceptedInv
  <2> DEFINE h == doc.hours
  <2>3. /\ h \in {None} \cup {k \in B!Hours : k.start # k.end}
        /\ [doc EXCEPT !.hours = h] = doc
    BY <2>1, DocParts DEF B!ConfigDocs
  <2>4. B!ValidHours(h)
    <3>1. B!ApplyDefaults(doc, "here").hours = h
      BY <2>1, Defaulted
    <3>. QED  BY <2>2, <3>1 DEF B!LoadConfig, B!Validate
  <2>5. B!Validate(B!LoadDocument(doc)) /\ doc' = B!LoadDocument(doc)
    BY <1>9 DEF B!Setter, B!Written
  <2> HIDE DEF h
  <2>6. B!LoadConfig(doc') /\ doc' \in B!ConfigDocs
    BY <2>1, <2>2, <2>3, <2>4, <2>5, LoadsWhenWritten, Defaulted
    DEF B!LoadDocument
  <2>7. keys' = keys
    BY <1>9 DEF B!Setter
  <2>. QED
    BY <2>6, <2>7, DocParts DEF B!LoadConfig, B!Secrets
<1>10. CASE B!SetHeartbeat
  <2>1. doc \in B!ConfigDocs
    BY <1>0, <1>10 DEF B!SetHeartbeat, BootTypes, BootDocInv
  <2> SUFFICES ASSUME accepted PROVE doc' # None /\ B!LoadConfig(doc)'
    BY <1>10 DEF B!SetHeartbeat, AcceptedInv
  <2>2. B!LoadConfig(doc)
    BY <1>0 DEF AcceptedInv
  <2>3. PICK h \in {None} \cup B!Hours :
            /\ B!ValidHours(h) /\ B!Validate(B!LoadDocument(doc))
            /\ doc' = B!LoadDocument([doc EXCEPT !.hours = h])
    BY <1>10 DEF B!SetHeartbeat, B!Written
  <2>4. h \in {None} \cup {k \in B!Hours : k.start # k.end}
    BY <2>3 DEF B!ValidHours
  <2>5. B!LoadConfig(doc') /\ doc' \in B!ConfigDocs
    BY <2>1, <2>2, <2>3, <2>4, LoadsWhenWritten, DocExcept, Defaulted
    DEF B!LoadDocument
  <2>6. keys' = keys
    BY <1>10 DEF B!SetHeartbeat
  <2>. QED
    BY <2>5, <2>6, DocParts DEF B!LoadConfig, B!Secrets
<1>11. CASE B!ReplaceConfig
  <2>1. B!LoadConfig(doc') /\ doc' \in B!ConfigDocs
    BY <1>11, FirstDocs DEF B!ReplaceConfig, B!Accepted
  <2>2. keys' = keys
    BY <1>11 DEF B!ReplaceConfig
  <2>. QED
    BY <2>1, <2>2, DocParts DEF AcceptedInv, B!LoadConfig, B!Secrets
<1>. QED
  BY <1>1, <1>2, <1>3, <1>4, <1>5, <1>6, <1>7, <1>8, <1>9, <1>10, <1>11
  DEF B!Next

(* The boot as it is at first.                                             *)
LEMMA BootInit == B!Init => BootInv
<1> SUFFICES ASSUME B!Init PROVE BootInv
  OBVIOUS
<1>1. doc \in B!ConfigDocs \cup {None}
  BY FirstDocs DEF B!Init
<1>2. artifacts \in BOOLEAN /\ headless \in BOOLEAN /\ keys \in BOOLEAN
  BY DEF B!Init
<1>3. accepted \in BOOLEAN
  BY Zenon DEF B!Init
<1>4. BootTypes
  BY <1>1, <1>2, <1>3 DEF B!Init, BootTypes, BootPcs
<1>5. BootDocInv
  BY FirstDocs DEF B!Init, BootDocInv, B!CreatedOnce
<1>6. AcceptedInv
  BY DEF B!Init, AcceptedInv
<1>. QED  BY <1>4, <1>5, <1>6 DEF BootInv

(* Nothing of a boot changes while none of its variables does.             *)
LEMMA BootStays == BootInv /\ UNCHANGED bootVars => BootInv'
<1> SUFFICES ASSUME BootInv, UNCHANGED bootVars PROVE BootInv'
  OBVIOUS
<1>0. BootTypes /\ BootDocInv /\ AcceptedInv
  BY DEF BootInv
<1>1. /\ doc' = doc /\ artifacts' = artifacts /\ headless' = headless
      /\ keys' = keys /\ boot' = boot /\ bootRan' = bootRan
      /\ accepted' = accepted /\ creations' = creations
      /\ docEdits' = docEdits
  BY DEF bootVars
<1>2. BootTypes'
  BY <1>0, <1>1 DEF BootTypes
<1>3. BootDocInv'
  BY <1>0, <1>1 DEF BootDocInv, B!CreatedOnce
<1>4. AcceptedInv'
  BY <1>0, <1>1 DEF AcceptedInv, B!LoadConfig, B!Secrets
<1>. QED  BY <1>2, <1>3, <1>4 DEF BootInv

(* So every step keeps the invariant.                                      *)
LEMMA BootKept == BootInv /\ B!Next => BootInv'
  BY BootTypesKept, BootDocKept, AcceptedKept DEF BootInv

(* What the invariant says of types.                                       *)
LEMMA BootTyped == BootInv => B!TypeOK
  BY DEF BootInv, BootTypes, BootPcs, B!TypeOK

(* A start carries out no step that changes what the document means.       *)
LEMMA MeaningKept == BootInv /\ B!Next => B!KeepsMeaning
<1> SUFFICES ASSUME BootInv, B!Next, doc # None, docEdits' = docEdits
             PROVE  doc' # None /\ B!Meaning(doc') = B!Meaning(doc)
  BY DEF B!KeepsMeaning
<1> USE DEF B!Goes
<1>0. BootTypes /\ BootDocInv /\ docEdits \in Nat /\ doc \in B!ConfigDocs
  BY DEF BootInv, BootTypes
<1>1. ASSUME doc' = doc
      PROVE  doc' # None /\ B!Meaning(doc') = B!Meaning(doc)
  BY <1>1
<1>2. ASSUME NEW b \in Boots,
             \/ B!StatConfig(b) \/ B!InitializeConfig(b)
             \/ B!CompleteSetup(b) \/ B!Start(b) \/ B!Ends(b)
      PROVE  doc' = doc
  BY <1>2 DEF B!StatConfig, B!InitializeConfig, B!CompleteSetup, B!Start,
              B!Ends, B!Create, B!StillMissing
<1>3. ASSUME NEW b \in Boots, B!PruneRetiredFields(b)
      PROVE  doc' # None /\ B!Meaning(doc') = B!Meaning(doc)
  <2> DEFINE zone == B!CarryOverCalendarTimezone(doc)
             n == [doc EXCEPT !.timezone = zone, !.calendar = "none",
                              !.retired = FALSE]
  <2>1. doc' = n
    BY <1>3 DEF B!PruneRetiredFields
  <2>2. zone \in {"unset", "own", "UTC"}
    BY <1>0, DocParts DEF B!CarryOverCalendarTimezone
  <2>3. zone = "own" <=> doc.timezone = "own" \/ doc.calendar = "own"
    BY <1>0, DocParts DEF B!CarryOverCalendarTimezone, BootDocInv
  <2> HIDE DEF zone
  <2>4. /\ n \in B!ConfigDocs /\ n.timezone = zone /\ n.calendar = "none"
        /\ n.tracing = doc.tracing /\ n.hours = doc.hours
    BY <1>0, <2>2, Pruned
  <2> HIDE DEF n
  <2>. QED  BY <2>1, <2>3, <2>4, DocParts DEF B!Meaning
<1>4. ASSUME NEW b \in Boots, B!MigrateLegacyRunnerRoot(b)
      PROVE  doc' # None /\ B!Meaning(doc') = B!Meaning(doc)
  <2> DEFINE e == B!ApplyDefaults(doc, "/data")
             n == [e EXCEPT !.root = e.dataDir]
  <2>1. doc.calendar = "none" /\ (doc' = doc \/ doc' = n)
    BY <1>0, <1>4 DEF B!MigrateLegacyRunnerRoot, B!LoadDocument, BootDocInv
  <2>2. /\ e \in B!ConfigDocs /\ e.calendar = doc.calendar
        /\ e.hours = doc.hours /\ e.dataDir \in B!Homes
        /\ e.timezone = (IF doc.timezone = "unset" THEN "UTC"
                         ELSE doc.timezone)
        /\ e.tracing = (IF doc.tracing \in {"none", "empty"} THEN "on"
                        ELSE doc.tracing)
    BY <1>0, Defaulted, DocParts DEF B!Homes
  <2> HIDE DEF e
  <2>3. /\ n \in B!ConfigDocs /\ n.calendar = e.calendar
        /\ n.hours = e.hours /\ n.timezone = e.timezone
        /\ n.tracing = e.tracing
    BY <2>2 DEF B!ConfigDocs, B!Homes
  <2> HIDE DEF n
  <2>4. (n.tracing # "off") <=> (doc.tracing # "off")
    BY <2>2, <2>3
  <2>5. (n.timezone = "own") <=> (doc.timezone = "own")
    BY <2>2, <2>3
  <2>6. n # None /\ B!Meaning(n) = B!Meaning(doc)
    BY <2>1, <2>2, <2>3, <2>4, <2>5, DocParts DEF B!Meaning
  <2>. QED  BY <1>0, <2>1, <2>6, DocParts
<1>5. ASSUME NEW b \in Boots, B!BackfillDefaultedSections(b)
      PROVE  doc' # None /\ B!Meaning(doc') = B!Meaning(doc)
  <2> DEFINE n == [doc EXCEPT !.tracing = B!Backfilled(doc.tracing)]
  <2>1. doc' = n
    BY <1>5 DEF B!BackfillDefaultedSections
  <2>2. /\ n \in B!ConfigDocs /\ n.timezone = doc.timezone
        /\ n.calendar = doc.calendar /\ n.hours = doc.hours
        /\ n.tracing = B!Backfilled(doc.tracing)
    BY <1>0, DocParts DEF B!ConfigDocs, B!Backfilled
  <2> HIDE DEF n
  <2>3. (n.tracing # "off") <=> (doc.tracing # "off")
    BY <2>2 DEF B!Backfilled
  <2>. QED  BY <2>1, <2>2, <2>3, DocParts DEF B!Meaning
<1>6. ~B!Setter /\ ~B!SetHeartbeat /\ ~B!ReplaceConfig
  BY <1>0 DEF B!Setter, B!SetHeartbeat, B!ReplaceConfig, B!Edit
<1>. QED  BY <1>1, <1>2, <1>3, <1>4, <1>5, <1>6 DEF B!Next

(* A start after the editor took a document finds one that loads.          *)
LEMMA AcceptedStarts == BootInv /\ B!Next => B!StartsIfAccepted
<1> SUFFICES ASSUME BootInv, B!Next, NEW b \in Boots, accepted,
                    boot[b] = "load"
             PROVE  boot'[b] # "safe mode"
  BY DEF B!StartsIfAccepted
<1> USE DEF B!Goes
<1>0. B!LoadConfig(doc) /\ boot \in [Boots -> BootPcs]
  BY DEF BootInv, AcceptedInv, BootTypes
<1>1. ASSUME NEW c \in Boots, B!Start(c) PROVE boot'[b] # "safe mode"
  <2>1. boot' = [boot EXCEPT ![c] = "running"]
    BY <1>0, <1>1 DEF B!Start
  <2>. QED  BY <1>0, <2>1
<1>2. ASSUME NEW c \in Boots,
             \/ B!StatConfig(c) \/ B!InitializeConfig(c)
             \/ B!CompleteSetup(c) \/ B!PruneRetiredFields(c)
             \/ B!MigrateLegacyRunnerRoot(c)
             \/ B!BackfillDefaultedSections(c) \/ B!Ends(c)
      PROVE  \E then \in BootPcs \ {"safe mode"} :
                boot' = [boot EXCEPT ![c] = then]
  BY <1>2 DEF B!StatConfig, B!InitializeConfig, B!CompleteSetup,
              B!PruneRetiredFields, B!MigrateLegacyRunnerRoot,
              B!BackfillDefaultedSections, B!Ends, BootPcs
<1>3. ASSUME B!Setter \/ B!SetHeartbeat \/ B!ReplaceConfig
      PROVE  boot' = boot
  BY <1>3 DEF B!Setter, B!SetHeartbeat, B!ReplaceConfig
<1>. QED  BY <1>0, <1>1, <1>2, <1>3 DEF B!Next

(* A beat that is put off is put off to the opening of its hours, and to   *)
(* no later minute.                                                        *)
LEMMA OpensAtOnce ==
  ASSUME NEW h \in B!Hours, h.start < Day, h.start # h.end,
         NEW when \in 0 .. Day - 1
  PROVE  LET wait == B!NextOpen(h, when) IN
         /\ B!Active(h, (when + wait) % Day)
         /\ \A k \in 0 .. wait : k < wait => ~B!Active(h, (when + k) % Day)
<1> DEFINE wait == B!NextOpen(h, when)
<1> USE BootAssumption
<1>1. /\ h.start \in 0 .. Day - 1 /\ h.end \in 0 .. Day /\ Day \in Nat \ {0}
      /\ h.start \in Int /\ h.end \in Int /\ Day \in Int /\ when \in Int
  BY DEF B!Hours
<1>2. \A x \in Nat : /\ x < Day => x % Day = x
                     /\ Day <= x /\ x < 2 * Day => x % Day = x - Day
  BY <1>1
<1>3. CASE B!Active(h, when)
  <2>1. wait = 0
    BY <1>3 DEF B!NextOpen
  <2>2. (when + wait) % Day = when
    BY <1>1, <1>2, <2>1
  <2>. QED  BY <1>3, <2>1, <2>2
<1>4. CASE ~B!Active(h, when) /\ h.start > when
  <2>1. wait = h.start - when
    BY <1>4 DEF B!NextOpen, B!Opening
  <2>2. (when + wait) % Day = h.start
    BY <1>1, <1>2, <2>1
  <2>3. B!Active(h, h.start)
    BY <1>1 DEF B!Active
  <2>4. ASSUME NEW k \in 0 .. wait, k < wait
        PROVE  ~B!Active(h, (when + k) % Day)
    <3>1. (when + k) % Day = when + k
      BY <1>1, <1>2, <1>4, <2>1, <2>4
    <3>. QED  BY <1>1, <1>4, <2>1, <2>4, <3>1 DEF B!Active
  <2>. QED  BY <2>2, <2>3, <2>4
<1>5. CASE ~B!Active(h, when) /\ ~(h.start > when)
  <2>1. wait = h.start + Day - when /\ h.start <= when
    BY <1>1, <1>5 DEF B!NextOpen, B!Opening
  <2>2. (when + wait) % Day = h.start
    BY <1>1, <1>2, <2>1
  <2>3. B!Active(h, h.start)
    BY <1>1 DEF B!Active
  <2>4. ASSUME NEW k \in 0 .. wait, k < wait
        PROVE  ~B!Active(h, (when + k) % Day)
    <3>1. h.start < h.end /\ h.end <= when
      BY <1>1, <1>5, <2>1 DEF B!Active
    <3>2. CASE when + k < Day
      <4>1. (when + k) % Day = when + k
        BY <1>1, <1>2, <3>2, <2>4
      <4>. QED  BY <1>1, <3>1, <4>1 DEF B!Active
    <3>3. CASE ~(when + k < Day)
      <4>1. (when + k) % Day = when + k - Day /\ when + k - Day < h.start
        BY <1>1, <1>2, <2>1, <2>4, <3>3
      <4>. QED  BY <1>1, <3>1, <4>1 DEF B!Active
    <3>. QED  BY <3>2, <3>3
  <2>. QED  BY <2>2, <2>3, <2>4
<1>. QED  BY <1>3, <1>4, <1>5

(* So it is for the hours of every document there is.                      *)
LEMMA OpensAlways == BootInv => B!OpensNext
<1> SUFFICES ASSUME BootInv, doc # None, doc.hours # None,
                    NEW when \in 0 .. Day - 1
             PROVE  LET wait == B!NextOpen(doc.hours, when) IN
                    /\ B!Active(doc.hours, (when + wait) % Day)
                    /\ \A k \in 0 .. wait :
                          k < wait => ~B!Active(doc.hours, (when + k) % Day)
  BY DEF B!OpensNext
<1>1. doc.hours \in B!Hours /\ doc.hours.start # doc.hours.end
  BY DocParts DEF BootInv, BootTypes
<1>2. doc.hours.start < Day
  BY <1>1, BootAssumption DEF B!Hours
<1>. QED  BY <1>1, <1>2, OpensAtOnce

-----------------------------------------------------------------------------
(* The move of the home                                                    *)

(* An account has the document in its own directory.                       *)
Held(d) == \E i \in HomeIds : H!Has(private[i], d)

(* Where the boot of the home is, and where it is once the history is some *)
(* account's.                                                              *)
BootPlaces == {"down", "relocate", "import", "archive", "assign", "rename", "documents",
               "copy", "copied", "complete", "serve", "up"}
Assigned == {"rename", "documents", "copy", "copied", "complete"}

(* Types that TypeOK leaves open.                                          *)
HomeRest ==
    /\ homePc \in BootPlaces /\ from \in HomeIds \cup {None}
    /\ original \subseteq Docs
    /\ written \subseteq Docs \X HomeIds
    /\ homePc \in Assigned => conf.owner \in HomeIds
    /\ homePc = "rename" => from \in HomeIds /\ from # conf.owner

(* The rows of before the accounts belong to nobody or to who was          *)
(* recorded, and once assigned, to an account that exists.                 *)
HistoryInv ==
    /\ \A r \in rows : r.by = H!Unowned => r.owner \in {H!Unowned, recorded}
    /\ homePc \in Assigned \cup {"serve", "up"} =>
         \A r \in rows : r.by = H!Unowned => r.owner \in conf.ids

(* A document is at the root or in memories, never in both; at the root    *)
(* only until it was moved; and once they are said to be copied, whatever  *)
(* memories holds some account has.                                        *)
MovedInv ==
    /\ \A d \in Docs : atRoot[d] # None => ~H!Has(memories, d)
    /\ homePc \notin {"down", "relocate"} \/ phase # None => \A d \in Docs : atRoot[d] = None
    /\ phase = "copied" \/ homePc = "copied" => \A d \in Docs : H!Has(memories, d) => Held(d)

(* The inductive invariant of the home.                                    *)
HomeInv ==
    /\ H!TypeOK /\ HomeRest /\ HistoryInv /\ MovedInv
    /\ H!OriginalsKept /\ H!LiveDocumentsKept

(* What the shapes of a configuration have in common.                      *)
LEMMA ShapeParts ==
  ASSUME NEW c \in H!Shapes
  PROVE  /\ c.ids \subseteq HomeIds /\ c.owner \in HomeIds \cup {None}
         /\ c.owner # None => c.owner \in c.ids
<1>1. CASE c \in {[accounts |-> FALSE, ids |-> {i}, owner |-> i] : i \in HomeIds}
  BY <1>1
<1>2. CASE c \in {d \in [accounts : {TRUE}, ids : SUBSET HomeIds \ {{}},
                         owner : HomeIds \cup {None}] : d.owner \in d.ids \cup {None}}
  BY <1>2
<1>. QED  BY <1>1, <1>2 DEF H!Shapes

(* The home as it is at first.                                             *)
LEMMA HomeInitial == H!Init => HomeInv
<1> SUFFICES ASSUME H!Init PROVE HomeInv
  OBVIOUS
<1> USE HomeAssumption
<1>1. PICK flat \in SUBSET original :
         /\ atRoot = [d \in Docs |-> IF d \in flat THEN "old" ELSE None]
         /\ memories = IF original \ flat = {} THEN None
                       ELSE [d \in Docs |-> IF d \in original \ flat THEN "old" ELSE None]
  BY DEF H!Init
<1>2. atRoot \in H!Dirs /\ memories \in H!Dirs \cup {None}
  BY <1>1 DEF H!Dirs
<1>3. H!TypeOK
  <2>1. rows \subseteq [by : HomeIds \cup {"unowned"}, owner : HomeIds \cup {"unowned"}]
    BY DEF H!Init, H!Unowned
  <2>2. imported \in BOOLEAN
    BY Zenon DEF H!Init
  <2>. QED  BY <1>2, <2>1, <2>2 DEF H!Init, H!TypeOK, H!Unowned
<1>4. HomeRest
  BY DEF H!Init, HomeRest, BootPlaces, Assigned
<1>5. HistoryInv
  BY DEF H!Init, HistoryInv, Assigned, H!Unowned
<1>6. MovedInv
  BY <1>1 DEF H!Init, MovedInv, H!Has
<1>7. H!OriginalsKept
  BY <1>1 DEF H!Init, H!OriginalsKept, H!Has
<1>8. H!LiveDocumentsKept
  BY DEF H!Init, H!LiveDocumentsKept
<1>. QED  BY <1>3, <1>4, <1>5, <1>6, <1>7, <1>8 DEF HomeInv

(* Nothing of it changes while none of its variables does.                 *)
LEMMA HomeStays == HomeInv /\ UNCHANGED homeVars => HomeInv'
<1> SUFFICES ASSUME HomeInv, UNCHANGED homeVars PROVE HomeInv'
  OBVIOUS
<1> USE DEF homeVars, HomeInv
<1>1. H!TypeOK' /\ HomeRest'
  BY DEF H!TypeOK, HomeRest
<1>2. HistoryInv'
  BY DEF HistoryInv
<1>3. MovedInv' /\ H!OriginalsKept' /\ H!LiveDocumentsKept'
  BY DEF MovedInv, Held, H!Has, H!OriginalsKept, H!LiveDocumentsKept
<1>. QED  BY <1>1, <1>2, <1>3

(* Every step of the boot, every write and every edit by hand keep the     *)
(* types,                                                                  *)
LEMMA HomeTypesKept == HomeInv /\ H!Next => H!TypeOK' /\ HomeRest'
<1> SUFFICES ASSUME HomeInv, H!Next PROVE H!TypeOK' /\ HomeRest'
  OBVIOUS
<1> USE HomeAssumption
    DEF H!Bounds, H!Files, H!Database, H!Recording, H!Target
<1>0. /\ H!TypeOK /\ HomeRest /\ HistoryInv /\ MovedInv
      /\ H!OriginalsKept /\ H!LiveDocumentsKept
  BY DEF HomeInv
<1>1. ASSUME NEW shape \in H!Shapes, H!EditConfig(shape) PROVE H!TypeOK' /\
       HomeRest'
  BY <1>0, <1>1, ShapeParts DEF H!EditConfig, H!TypeOK, HomeRest, BootPlaces,
     Assigned
<1>2. ASSUME NEW i \in HomeIds, NEW d \in Docs, H!Serve(i, d) PROVE H!TypeOK'
       /\ HomeRest'
  BY <1>0, <1>2 DEF H!Serve, H!Dirs, H!NoDocs, H!Unowned, H!TypeOK, HomeRest,
     BootPlaces, Assigned
<1>3. CASE H!Stop
  BY <1>0, <1>3 DEF H!Stop, H!TypeOK, HomeRest, BootPlaces, Assigned
<1>4. CASE H!Boot
  BY <1>0, <1>4 DEF H!Boot, H!TypeOK, HomeRest, BootPlaces, Assigned
<1>5. ASSUME NEW d \in Docs, H!Relocate(d) PROVE H!TypeOK' /\ HomeRest'
  BY <1>0, <1>5 DEF H!Relocate, H!Dirs, H!NoDocs, H!Has, H!TypeOK, HomeRest,
     BootPlaces, Assigned
<1>6. ASSUME NEW d \in Docs, H!Stage(d) PROVE H!TypeOK' /\ HomeRest'
  BY <1>0, <1>6 DEF H!Stage, H!Dirs, H!NoDocs, H!Has, H!TypeOK, HomeRest,
     BootPlaces, Assigned
<1>7. ASSUME NEW d \in Docs, H!CopyIn(d) PROVE H!TypeOK' /\ HomeRest'
  BY <1>0, <1>7 DEF H!CopyIn, H!Dirs, H!Has, H!TypeOK, HomeRest, BootPlaces,
     Assigned
<1>8. CASE H!Relocated
  BY <1>0, <1>8 DEF H!Relocated, H!TypeOK, HomeRest, BootPlaces, Assigned
<1>9. CASE H!ImportOnce
  BY <1>0, <1>9 DEF H!ImportOnce, H!ImportedRows, H!Unowned, H!TypeOK, HomeRest,
     BootPlaces, Assigned
<1>10. CASE H!Archive
  BY <1>0, <1>10 DEF H!Archive, H!TypeOK, HomeRest, BootPlaces, Assigned
<1>11. CASE H!AssignNothing
  BY <1>0, <1>11 DEF H!AssignNothing, H!TypeOK, HomeRest, BootPlaces, Assigned
<1>12. CASE H!AssignRecords
  BY <1>0, <1>12, ShapeParts DEF H!AssignRecords, H!MigrateAccounts, H!Unowned,
     H!MayTakeOver, H!TypeOK, HomeRest, BootPlaces, Assigned
<1>13. CASE H!RenameAccount
  BY <1>0, <1>13 DEF H!RenameAccount, H!TypeOK, HomeRest, BootPlaces, Assigned
<1>14. CASE H!DocumentsDone
  BY <1>0, <1>14 DEF H!DocumentsDone, H!TypeOK, HomeRest, BootPlaces, Assigned
<1>15. CASE H!StartCopy
  BY <1>0, <1>15 DEF H!StartCopy, H!TypeOK, HomeRest, BootPlaces, Assigned
<1>16. CASE H!Publish
  BY <1>0, <1>16 DEF H!Publish, H!TypeOK, HomeRest, BootPlaces, Assigned
<1>17. CASE H!Reconciled
  BY <1>0, <1>17 DEF H!Reconciled, H!TypeOK, HomeRest, BootPlaces, Assigned
<1>18. CASE H!Copied
  BY <1>0, <1>18 DEF H!Copied, H!TypeOK, HomeRest, BootPlaces, Assigned
<1>19. CASE H!ArchiveDirectory
  BY <1>0, <1>19 DEF H!ArchiveDirectory, H!ArchiveOriginals, H!Holds, H!Has,
     H!TypeOK, HomeRest, BootPlaces, Assigned
<1>20. CASE H!Complete
  BY <1>0, <1>20 DEF H!Complete, H!TypeOK, HomeRest, BootPlaces, Assigned
<1>21. CASE H!HandOut
  BY <1>0, <1>21 DEF H!HandOut, H!TypeOK, HomeRest, BootPlaces, Assigned
<1>. QED
  BY <1>1, <1>2, <1>3, <1>4, <1>5, <1>6, <1>7, <1>8, <1>9, <1>10, <1>11, <1>12,
     <1>13, <1>14, <1>15, <1>16, <1>17, <1>18, <1>19, <1>20, <1>21
  DEF H!Next

(* the history somebody's,                                                 *)
LEMMA HistoryKept == HomeInv /\ H!Next => HistoryInv'
<1> SUFFICES ASSUME HomeInv, H!Next PROVE HistoryInv'
  OBVIOUS
<1> USE HomeAssumption
    DEF H!Bounds, H!Files, H!Database, H!Recording, H!Target
<1>0. /\ H!TypeOK /\ HomeRest /\ HistoryInv /\ MovedInv
      /\ H!OriginalsKept /\ H!LiveDocumentsKept
  BY DEF HomeInv
<1>1. ASSUME NEW shape \in H!Shapes, H!EditConfig(shape) PROVE HistoryInv'
  BY <1>0, <1>1 DEF H!EditConfig, HistoryInv, Assigned, H!TypeOK, HomeRest
<1>2. ASSUME NEW i \in HomeIds, NEW d \in Docs, H!Serve(i, d) PROVE HistoryInv'
  BY <1>0, <1>2 DEF H!Serve, HistoryInv, Assigned, H!TypeOK, HomeRest
<1>3. CASE H!Stop
  BY <1>0, <1>3 DEF H!Stop, HistoryInv, Assigned, H!TypeOK, HomeRest
<1>4. CASE H!Boot
  BY <1>0, <1>4 DEF H!Boot, HistoryInv, Assigned, H!TypeOK, HomeRest
<1>5. ASSUME NEW d \in Docs, H!Relocate(d) PROVE HistoryInv'
  BY <1>0, <1>5 DEF H!Relocate, HistoryInv, Assigned, H!TypeOK, HomeRest
<1>6. ASSUME NEW d \in Docs, H!Stage(d) PROVE HistoryInv'
  BY <1>0, <1>6 DEF H!Stage, HistoryInv, Assigned, H!TypeOK, HomeRest
<1>7. ASSUME NEW d \in Docs, H!CopyIn(d) PROVE HistoryInv'
  BY <1>0, <1>7 DEF H!CopyIn, HistoryInv, Assigned, H!TypeOK, HomeRest
<1>8. CASE H!Relocated
  BY <1>0, <1>8 DEF H!Relocated, HistoryInv, Assigned, H!TypeOK, HomeRest
<1>9. CASE H!ImportOnce
  BY <1>0, <1>9 DEF H!ImportOnce, H!ImportedRows, H!Unowned, HistoryInv,
     Assigned, H!TypeOK, HomeRest
<1>10. CASE H!Archive
  BY <1>0, <1>10 DEF H!Archive, HistoryInv, Assigned, H!TypeOK, HomeRest
<1>11. CASE H!AssignNothing
  BY <1>0, <1>11 DEF H!AssignNothing, H!HasUnownedRecords, HistoryInv, Assigned,
     H!TypeOK, HomeRest
<1>12. CASE H!AssignRecords
  BY <1>0, <1>12, ShapeParts DEF H!AssignRecords, H!MigrateAccounts, H!Unowned,
     HistoryInv, Assigned, H!TypeOK, HomeRest
<1>13. CASE H!RenameAccount
  BY <1>0, <1>13 DEF H!RenameAccount, HistoryInv, Assigned, H!TypeOK, HomeRest
<1>14. CASE H!DocumentsDone
  BY <1>0, <1>14 DEF H!DocumentsDone, HistoryInv, Assigned, H!TypeOK, HomeRest
<1>15. CASE H!StartCopy
  BY <1>0, <1>15 DEF H!StartCopy, HistoryInv, Assigned, H!TypeOK, HomeRest
<1>16. CASE H!Publish
  BY <1>0, <1>16 DEF H!Publish, HistoryInv, Assigned, H!TypeOK, HomeRest
<1>17. CASE H!Reconciled
  BY <1>0, <1>17 DEF H!Reconciled, HistoryInv, Assigned, H!TypeOK, HomeRest
<1>18. CASE H!Copied
  BY <1>0, <1>18 DEF H!Copied, HistoryInv, Assigned, H!TypeOK, HomeRest
<1>19. CASE H!ArchiveDirectory
  BY <1>0, <1>19 DEF H!ArchiveDirectory, HistoryInv, Assigned, H!TypeOK, HomeRest
<1>20. CASE H!Complete
  BY <1>0, <1>20 DEF H!Complete, HistoryInv, Assigned, H!TypeOK, HomeRest
<1>21. CASE H!HandOut
  BY <1>0, <1>21 DEF H!HandOut, HistoryInv, Assigned, H!TypeOK, HomeRest
<1>. QED
  BY <1>1, <1>2, <1>3, <1>4, <1>5, <1>6, <1>7, <1>8, <1>9, <1>10, <1>11, <1>12,
     <1>13, <1>14, <1>15, <1>16, <1>17, <1>18, <1>19, <1>20, <1>21
  DEF H!Next

(* the documents in one place,                                             *)
LEMMA MovedKept == HomeInv /\ H!Next => MovedInv'
<1> SUFFICES ASSUME HomeInv, H!Next PROVE MovedInv'
  OBVIOUS
<1> USE HomeAssumption
    DEF H!Bounds, H!Files, H!Database, H!Recording, H!Target
<1>0. /\ H!TypeOK /\ HomeRest /\ HistoryInv /\ MovedInv
      /\ H!OriginalsKept /\ H!LiveDocumentsKept
  BY DEF HomeInv
<1>1. ASSUME NEW shape \in H!Shapes, H!EditConfig(shape) PROVE MovedInv'
  BY <1>0, <1>1 DEF H!EditConfig, MovedInv, H!TypeOK, HomeRest, Assigned, H!Has,
     Held
<1>2. ASSUME NEW i \in HomeIds, NEW d \in Docs, H!Serve(i, d) PROVE MovedInv'
  BY <1>0, <1>2 DEF H!Serve, H!NoDocs, H!Dirs, MovedInv, H!TypeOK, HomeRest,
     Assigned, H!Has, Held
<1>3. CASE H!Stop
  BY <1>0, <1>3 DEF H!Stop, MovedInv, H!TypeOK, HomeRest, Assigned, H!Has, Held
<1>4. CASE H!Boot
  BY <1>0, <1>4 DEF H!Boot, MovedInv, H!TypeOK, HomeRest, Assigned, H!Has, Held
<1>5. ASSUME NEW d \in Docs, H!Relocate(d) PROVE MovedInv'
  BY <1>0, <1>5 DEF H!Relocate, H!NoDocs, H!Dirs, MovedInv, H!TypeOK, HomeRest,
     Assigned, H!Has, Held
<1>6. ASSUME NEW d \in Docs, H!Stage(d) PROVE MovedInv'
  BY <1>0, <1>6 DEF H!Stage, MovedInv, H!TypeOK, HomeRest, Assigned, H!Has, Held
<1>7. ASSUME NEW d \in Docs, H!CopyIn(d) PROVE MovedInv'
  BY <1>0, <1>7 DEF H!CopyIn, H!Dirs, H!Missing, MovedInv, H!TypeOK, HomeRest,
     Assigned, H!Has, Held
<1>8. CASE H!Relocated
  BY <1>0, <1>8 DEF H!Relocated, MovedInv, H!TypeOK, HomeRest, Assigned, H!Has,
     Held
<1>9. CASE H!ImportOnce
  BY <1>0, <1>9 DEF H!ImportOnce, MovedInv, H!TypeOK, HomeRest, Assigned, H!Has,
     Held
<1>10. CASE H!Archive
  BY <1>0, <1>10 DEF H!Archive, MovedInv, H!TypeOK, HomeRest, Assigned, H!Has,
     Held
<1>11. CASE H!AssignNothing
  BY <1>0, <1>11 DEF H!AssignNothing, MovedInv, H!TypeOK, HomeRest, Assigned,
     H!Has, Held
<1>12. CASE H!AssignRecords
  BY <1>0, <1>12 DEF H!AssignRecords, MovedInv, H!TypeOK, HomeRest, Assigned,
     H!Has, Held
<1>13. CASE H!RenameAccount
  BY <1>0, <1>13 DEF H!RenameAccount, MovedInv, H!TypeOK, HomeRest, Assigned,
     H!Has, Held
<1>14. CASE H!DocumentsDone
  BY <1>0, <1>14 DEF H!DocumentsDone, MovedInv, H!TypeOK, HomeRest, Assigned,
     H!Has, Held
<1>15. CASE H!StartCopy
  BY <1>0, <1>15 DEF H!StartCopy, MovedInv, H!TypeOK, HomeRest, Assigned, H!Has,
     Held
<1>16. CASE H!Publish
  BY <1>0, <1>16 DEF H!Publish, H!Dirs, MovedInv, H!TypeOK, HomeRest, Assigned,
     H!Has, Held
<1>17. CASE H!Reconciled
  BY <1>0, <1>17 DEF H!Reconciled, MovedInv, H!TypeOK, HomeRest, Assigned, H!Has,
     Held
<1>18. CASE H!Copied
  BY <1>0, <1>18 DEF H!Copied, MovedInv, H!TypeOK, HomeRest, Assigned, H!Has, Held
<1>19. CASE H!ArchiveDirectory
  BY <1>0, <1>19 DEF H!ArchiveDirectory, H!ArchiveOriginals, H!Holds, MovedInv,
     H!TypeOK, HomeRest, Assigned, H!Has, Held
<1>20. CASE H!Complete
  BY <1>0, <1>20 DEF H!Complete, MovedInv, H!TypeOK, HomeRest, Assigned, H!Has,
     Held
<1>21. CASE H!HandOut
  BY <1>0, <1>21 DEF H!HandOut, MovedInv, H!TypeOK, HomeRest, Assigned, H!Has,
     Held
<1>. QED
  BY <1>1, <1>2, <1>3, <1>4, <1>5, <1>6, <1>7, <1>8, <1>9, <1>10, <1>11, <1>12,
     <1>13, <1>14, <1>15, <1>16, <1>17, <1>18, <1>19, <1>20, <1>21
  DEF H!Next

(* every original document somewhere,                                      *)
LEMMA OriginalsKeptOn == HomeInv /\ H!Next => H!OriginalsKept'
<1> SUFFICES ASSUME HomeInv, H!Next PROVE H!OriginalsKept'
  OBVIOUS
<1> USE HomeAssumption
    DEF H!Bounds, H!Files, H!Database, H!Recording, H!Target
<1>0. /\ H!TypeOK /\ HomeRest /\ HistoryInv /\ MovedInv
      /\ H!OriginalsKept /\ H!LiveDocumentsKept
  BY DEF HomeInv
<1>1. ASSUME NEW shape \in H!Shapes, H!EditConfig(shape) PROVE H!OriginalsKept'
  BY <1>0, <1>1 DEF H!EditConfig, MovedInv, H!OriginalsKept, H!TypeOK, HomeRest,
     Assigned, H!Has, Held
<1>2. ASSUME NEW i \in HomeIds, NEW d \in Docs, H!Serve(i, d) PROVE
       H!OriginalsKept'
  BY <1>0, <1>2 DEF H!Serve, H!NoDocs, H!Dirs, MovedInv, H!OriginalsKept,
     H!TypeOK, HomeRest, Assigned, H!Has, Held
<1>3. CASE H!Stop
  BY <1>0, <1>3 DEF H!Stop, MovedInv, H!OriginalsKept, H!TypeOK, HomeRest,
     Assigned, H!Has, Held
<1>4. CASE H!Boot
  BY <1>0, <1>4 DEF H!Boot, MovedInv, H!OriginalsKept, H!TypeOK, HomeRest,
     Assigned, H!Has, Held
<1>5. ASSUME NEW d \in Docs, H!Relocate(d) PROVE H!OriginalsKept'
  BY <1>0, <1>5 DEF H!Relocate, H!NoDocs, H!Dirs, MovedInv, H!OriginalsKept,
     H!TypeOK, HomeRest, Assigned, H!Has, Held
<1>6. ASSUME NEW d \in Docs, H!Stage(d) PROVE H!OriginalsKept'
  BY <1>0, <1>6 DEF H!Stage, MovedInv, H!OriginalsKept, H!TypeOK, HomeRest,
     Assigned, H!Has, Held
<1>7. ASSUME NEW d \in Docs, H!CopyIn(d) PROVE H!OriginalsKept'
  BY <1>0, <1>7 DEF H!CopyIn, H!Dirs, H!Missing, MovedInv, H!OriginalsKept,
     H!TypeOK, HomeRest, Assigned, H!Has, Held
<1>8. CASE H!Relocated
  BY <1>0, <1>8 DEF H!Relocated, MovedInv, H!OriginalsKept, H!TypeOK, HomeRest,
     Assigned, H!Has, Held
<1>9. CASE H!ImportOnce
  BY <1>0, <1>9 DEF H!ImportOnce, MovedInv, H!OriginalsKept, H!TypeOK, HomeRest,
     Assigned, H!Has, Held
<1>10. CASE H!Archive
  BY <1>0, <1>10 DEF H!Archive, MovedInv, H!OriginalsKept, H!TypeOK, HomeRest,
     Assigned, H!Has, Held
<1>11. CASE H!AssignNothing
  BY <1>0, <1>11 DEF H!AssignNothing, MovedInv, H!OriginalsKept, H!TypeOK,
     HomeRest, Assigned, H!Has, Held
<1>12. CASE H!AssignRecords
  BY <1>0, <1>12 DEF H!AssignRecords, MovedInv, H!OriginalsKept, H!TypeOK,
     HomeRest, Assigned, H!Has, Held
<1>13. CASE H!RenameAccount
  BY <1>0, <1>13 DEF H!RenameAccount, MovedInv, H!OriginalsKept, H!TypeOK,
     HomeRest, Assigned, H!Has, Held
<1>14. CASE H!DocumentsDone
  BY <1>0, <1>14 DEF H!DocumentsDone, MovedInv, H!OriginalsKept, H!TypeOK,
     HomeRest, Assigned, H!Has, Held
<1>15. CASE H!StartCopy
  BY <1>0, <1>15 DEF H!StartCopy, MovedInv, H!OriginalsKept, H!TypeOK, HomeRest,
     Assigned, H!Has, Held
<1>16. CASE H!Publish
  BY <1>0, <1>16 DEF H!Publish, H!Dirs, MovedInv, H!OriginalsKept, H!TypeOK,
     HomeRest, Assigned, H!Has, Held
<1>17. CASE H!Reconciled
  BY <1>0, <1>17 DEF H!Reconciled, MovedInv, H!OriginalsKept, H!TypeOK, HomeRest,
     Assigned, H!Has, Held
<1>18. CASE H!Copied
  BY <1>0, <1>18 DEF H!Copied, MovedInv, H!OriginalsKept, H!TypeOK, HomeRest,
     Assigned, H!Has, Held
<1>19. CASE H!ArchiveDirectory
  BY <1>0, <1>19 DEF H!ArchiveDirectory, H!ArchiveOriginals, H!Holds, MovedInv,
     H!OriginalsKept, H!TypeOK, HomeRest, Assigned, H!Has, Held
<1>20. CASE H!Complete
  BY <1>0, <1>20 DEF H!Complete, MovedInv, H!OriginalsKept, H!TypeOK, HomeRest,
     Assigned, H!Has, Held
<1>21. CASE H!HandOut
  BY <1>0, <1>21 DEF H!HandOut, MovedInv, H!OriginalsKept, H!TypeOK, HomeRest,
     Assigned, H!Has, Held
<1>. QED
  BY <1>1, <1>2, <1>3, <1>4, <1>5, <1>6, <1>7, <1>8, <1>9, <1>10, <1>11, <1>12,
     <1>13, <1>14, <1>15, <1>16, <1>17, <1>18, <1>19, <1>20, <1>21
  DEF H!Next

(* and what an account has written since.                                  *)
LEMMA LiveDocumentsKeptOn == HomeInv /\ H!Next => H!LiveDocumentsKept'
<1> SUFFICES ASSUME HomeInv, H!Next PROVE H!LiveDocumentsKept'
  OBVIOUS
<1> USE HomeAssumption
    DEF H!Bounds, H!Files, H!Database, H!Recording, H!Target
<1>0. /\ H!TypeOK /\ HomeRest /\ HistoryInv /\ MovedInv
      /\ H!OriginalsKept /\ H!LiveDocumentsKept
  BY DEF HomeInv
<1>1. ASSUME NEW shape \in H!Shapes, H!EditConfig(shape) PROVE
       H!LiveDocumentsKept'
  BY <1>0, <1>1 DEF H!EditConfig, H!LiveDocumentsKept, H!TypeOK, HomeRest,
     Assigned, H!Has
<1>2. ASSUME NEW i \in HomeIds, NEW d \in Docs, H!Serve(i, d) PROVE
       H!LiveDocumentsKept'
  BY <1>0, <1>2 DEF H!Serve, H!NoDocs, H!Dirs, H!LiveDocumentsKept, H!TypeOK,
     HomeRest, Assigned, H!Has
<1>3. CASE H!Stop
  BY <1>0, <1>3 DEF H!Stop, H!LiveDocumentsKept, H!TypeOK, HomeRest, Assigned,
     H!Has
<1>4. CASE H!Boot
  BY <1>0, <1>4 DEF H!Boot, H!LiveDocumentsKept, H!TypeOK, HomeRest, Assigned,
     H!Has
<1>5. ASSUME NEW d \in Docs, H!Relocate(d) PROVE H!LiveDocumentsKept'
  BY <1>0, <1>5 DEF H!Relocate, H!LiveDocumentsKept, H!TypeOK, HomeRest,
     Assigned, H!Has
<1>6. ASSUME NEW d \in Docs, H!Stage(d) PROVE H!LiveDocumentsKept'
  BY <1>0, <1>6 DEF H!Stage, H!LiveDocumentsKept, H!TypeOK, HomeRest, Assigned,
     H!Has
<1>7. ASSUME NEW d \in Docs, H!CopyIn(d) PROVE H!LiveDocumentsKept'
  BY <1>0, <1>7 DEF H!CopyIn, H!Dirs, H!Missing, H!LiveDocumentsKept, H!TypeOK,
     HomeRest, Assigned, H!Has
<1>8. CASE H!Relocated
  BY <1>0, <1>8 DEF H!Relocated, H!LiveDocumentsKept, H!TypeOK, HomeRest,
     Assigned, H!Has
<1>9. CASE H!ImportOnce
  BY <1>0, <1>9 DEF H!ImportOnce, H!LiveDocumentsKept, H!TypeOK, HomeRest,
     Assigned, H!Has
<1>10. CASE H!Archive
  BY <1>0, <1>10 DEF H!Archive, H!LiveDocumentsKept, H!TypeOK, HomeRest, Assigned,
     H!Has
<1>11. CASE H!AssignNothing
  BY <1>0, <1>11 DEF H!AssignNothing, H!LiveDocumentsKept, H!TypeOK, HomeRest,
     Assigned, H!Has
<1>12. CASE H!AssignRecords
  BY <1>0, <1>12 DEF H!AssignRecords, H!LiveDocumentsKept, H!TypeOK, HomeRest,
     Assigned, H!Has
<1>13. CASE H!RenameAccount
  BY <1>0, <1>13 DEF H!RenameAccount, H!LiveDocumentsKept, H!TypeOK, HomeRest,
     Assigned, H!Has
<1>14. CASE H!DocumentsDone
  BY <1>0, <1>14 DEF H!DocumentsDone, H!LiveDocumentsKept, H!TypeOK, HomeRest,
     Assigned, H!Has
<1>15. CASE H!StartCopy
  BY <1>0, <1>15 DEF H!StartCopy, H!LiveDocumentsKept, H!TypeOK, HomeRest,
     Assigned, H!Has
<1>16. CASE H!Publish
  BY <1>0, <1>16 DEF H!Publish, H!Dirs, H!LiveDocumentsKept, H!TypeOK, HomeRest,
     Assigned, H!Has
<1>17. CASE H!Reconciled
  BY <1>0, <1>17 DEF H!Reconciled, H!LiveDocumentsKept, H!TypeOK, HomeRest,
     Assigned, H!Has
<1>18. CASE H!Copied
  BY <1>0, <1>18 DEF H!Copied, H!LiveDocumentsKept, H!TypeOK, HomeRest, Assigned,
     H!Has
<1>19. CASE H!ArchiveDirectory
  BY <1>0, <1>19 DEF H!ArchiveDirectory, H!LiveDocumentsKept, H!TypeOK, HomeRest,
     Assigned, H!Has
<1>20. CASE H!Complete
  BY <1>0, <1>20 DEF H!Complete, H!LiveDocumentsKept, H!TypeOK, HomeRest,
     Assigned, H!Has
<1>21. CASE H!HandOut
  BY <1>0, <1>21 DEF H!HandOut, H!LiveDocumentsKept, H!TypeOK, HomeRest, Assigned,
     H!Has
<1>. QED
  BY <1>1, <1>2, <1>3, <1>4, <1>5, <1>6, <1>7, <1>8, <1>9, <1>10, <1>11, <1>12,
     <1>13, <1>14, <1>15, <1>16, <1>17, <1>18, <1>19, <1>20, <1>21
  DEF H!Next

-----------------------------------------------------------------------------
(* The cutover to accounts                                                 *)

(* A run of the cutover and a database, as the steps hold them.            *)
Runs == [pc : {"config", "marker", "resume", "copyConfig", "copyDatabase", "vacuum",
               "verify", "database", "seed", "ready", "done"},
         account : Accounts, digest : X!Documents]
Databases == [version : {9, 10}, marker : X!Markers \cup {None}, rows : SUBSET Accounts]

(* The run is at one of the places, the database has a marker, and the     *)
(* places at which it copies.                                              *)
In(pcs) == run # None /\ run.pc \in pcs
Marked == database # None /\ database.marker # None
Copying == {"copyConfig", "copyDatabase", "vacuum", "verify", "database", "seed", "ready"}

(* Types of the cutover.                                                   *)
CutoverTypes ==
    /\ document \in X!Documents /\ configCopy \in X!Documents \cup {None}
    /\ database \in Databases \cup {None} /\ run \in Runs \cup {None}
    /\ databaseCopy \in {None, "partial", "before", "after"}
    /\ logins \subseteq {0} \cup (1 .. MaxLogins) /\ issued \in 0..MaxLogins
    /\ ownerSteps \in 0..MaxOwnerSteps
    /\ upgraded \in BOOLEAN /\ daemon \in BOOLEAN

(* What is there at each place of a run: the marker it prepared, the       *)
(* copies made so far.                                                     *)
RunInv ==
    /\ In({"marker"}) => database # None
    /\ In(Copying \cup {"resume", "done"}) => Marked
    /\ In({"config"}) /\ database # None => Marked
    /\ In(Copying) => database.marker.phase = "prepared" /\ database.marker.digest = run.digest
    /\ In(Copying \ {"copyConfig"}) => configCopy = database.marker.digest
    /\ In({"vacuum"}) => databaseCopy = "partial"
    /\ In({"database", "seed", "ready"}) => databaseCopy = "before"
    /\ In({"seed", "ready"}) => database.version = 10

(* An upgraded database is of the new version and keeps its marker; before *)
(* it nobody has a login of the new kind, and after it nobody one of the   *)
(* old.                                                                    *)
UpgradeInv ==
    /\ upgraded => Marked /\ database.version = 10
    /\ database = None => logins = {} /\ issued = 0
    /\ database # None /\ database.version = 9 => issued = 0
    /\ database # None /\ database.version = 10 => 0 \notin logins
    /\ daemon => run = None /\ database # None /\ database.version = 10

(* The inductive invariant of the cutover.                                 *)
CutoverInv == CutoverTypes /\ RunInv /\ UpgradeInv /\ X!WayBack /\ X!SignedOutOnce

(* What the parts of a database are.                                       *)
LEMMA DatabaseParts ==
  ASSUME CutoverTypes, database # None
  PROVE  /\ database \in Databases
         /\ database.version \in {9, 10} /\ database.rows \subseteq Accounts
         /\ database.marker \in X!Markers \cup {None}
         /\ database.marker # None =>
               /\ database.marker \in X!Markers
               /\ database.marker.phase \in {"prepared", "database_ready", "complete"}
               /\ database.marker.digest \in X!Documents
  BY DEF CutoverTypes, Databases, X!Markers

(* What the parts of a run are.                                            *)
LEMMA RunParts ==
  ASSUME CutoverTypes, run # None
  PROVE  run \in Runs /\ run.account \in Accounts /\ run.digest \in X!Documents
  BY DEF CutoverTypes, Runs

(* A run that moves on keeps its account and its digest.                   *)
LEMMA RunGoes ==
  ASSUME CutoverTypes, run # None,
         NEW pc_1 \in {"config", "marker", "resume", "copyConfig", "copyDatabase",
                     "vacuum", "verify", "database", "seed", "ready", "done"},
         X!Goes(pc_1)
  PROVE  /\ run' \in Runs /\ run' # None /\ run'.pc = pc_1
         /\ run'.digest = run.digest /\ run'.account = run.account
  BY CutoverAssumption DEF CutoverTypes, Runs, X!Goes

(* What the writes of the database leave. *)
LEMMA RowsWritten ==
  ASSUME CutoverTypes, database # None,
         database' = [database EXCEPT !.rows = Accounts]
  PROVE  /\ database' \in Databases /\ database' # None
         /\ database'.version = database.version
         /\ database'.marker = database.marker
         /\ database'.rows = Accounts
  BY DatabaseParts, CutoverAssumption DEF Databases

(* its version,                                                            *)
LEMMA VersionWritten ==
  ASSUME CutoverTypes, database # None,
         database' = [database EXCEPT !.version = 10]
  PROVE  /\ database' \in Databases /\ database' # None
         /\ database'.version = 10
         /\ database'.marker = database.marker
         /\ database'.rows = database.rows
  BY DatabaseParts, CutoverAssumption DEF Databases

(* its marker,                                                             *)
LEMMA MarkerWritten ==
  ASSUME CutoverTypes, database # None, NEW digest \in X!Documents,
         database' = [database EXCEPT !.marker = [phase |-> "prepared", digest |-> digest]]
  PROVE  /\ database' \in Databases /\ database' # None
         /\ database'.version = database.version
         /\ database'.marker # None /\ database'.rows = database.rows
         /\ database'.marker.phase = "prepared"
         /\ database'.marker.digest = digest
<1> DEFINE m == [phase |-> "prepared", digest |-> digest]
<1>1. m \in X!Markers /\ m.phase = "prepared" /\ m.digest = digest
  BY DEF X!Markers
<1>2. database' = [database EXCEPT !.marker = m]
  OBVIOUS
<1> HIDE DEF m
<1>3. database' \in Databases
  BY <1>1, <1>2, DatabaseParts DEF Databases
<1>4. /\ database'.marker = m /\ database'.version = database.version
      /\ database'.rows = database.rows
  BY <1>1, <1>2, DatabaseParts DEF Databases
<1>. QED  BY <1>1, <1>3, <1>4, CutoverAssumption DEF Databases

(* and the phase of it.                                                    *)
LEMMA PhaseWritten ==
  ASSUME CutoverTypes, Marked,
         NEW phase_1 \in {"prepared", "database_ready", "complete"},
         database' = [database EXCEPT !.marker.phase = phase_1]
  PROVE  /\ database' \in Databases /\ database' # None
         /\ database'.version = database.version
         /\ database'.marker # None /\ database'.rows = database.rows
         /\ database'.marker.phase = phase_1
         /\ database'.marker.digest = database.marker.digest
<1> DEFINE m == [database.marker EXCEPT !.phase = phase_1]
<1>1. database.marker \in X!Markers
  BY DatabaseParts DEF Marked
<1>2. m \in X!Markers /\ m.phase = phase_1 /\ m.digest = database.marker.digest
  BY <1>1 DEF X!Markers
<1>3. database' = [database EXCEPT !.marker = m]
  BY <1>1, DatabaseParts DEF Marked, Databases
<1> HIDE DEF m
<1>4. database' \in Databases
  BY <1>2, <1>3, DatabaseParts DEF Databases, Marked
<1>5. /\ database'.marker = m /\ database'.version = database.version
      /\ database'.rows = database.rows
  BY <1>2, <1>3, DatabaseParts DEF Databases, Marked
<1>. QED  BY <1>2, <1>4, <1>5, CutoverAssumption DEF Databases

(* Every step of a run, of the daemon and of the owner keep the types,     *)
LEMMA CutoverTypesKept == CutoverInv /\ X!Next => CutoverTypes'
<1> SUFFICES ASSUME CutoverInv, X!Next PROVE CutoverTypes'
  OBVIOUS
<1> USE CutoverAssumption, DatabaseParts, RunParts, RunGoes
    DEF CutoverInv, CutoverTypes, X!At, X!Ends, X!Counters, X!Nothing, X!Idle, X!Record
<1>1. ASSUME NEW local \in BOOLEAN, NEW boundTo \in Accounts \cup {None},
       X!EditConfig(local, boundTo) PROVE CutoverTypes'
  <2>1. ownerSteps + 1 \in 0..MaxOwnerSteps
    BY <1>1 DEF X!EditConfig
  <2>2. document' \in X!Documents
    BY <1>1, <2>1 DEF X!EditConfig, X!Documents
  <2>. QED  BY <1>1, <2>1, <2>2 DEF X!EditConfig
<1>2. CASE X!RestoreConfig
  BY <1>2 DEF X!RestoreConfig
<1>3. CASE X!MoveAside
  BY <1>3 DEF X!MoveAside
<1>4. CASE X!StartDaemon
  <2>1. [version |-> 10, marker |-> None, rows |-> Accounts] \in Databases
    BY DEF Databases
  <2>2. database' \in Databases
    BY <1>4, <2>1, RowsWritten DEF X!StartDaemon, X!LocalAuthVersion
  <2>. QED  BY <1>4, <2>2 DEF X!StartDaemon
<1>5. CASE X!StopDaemon
  BY <1>5 DEF X!StopDaemon
<1>6. CASE X!Login
  BY <1>6 DEF X!Login
<1>7. ASSUME NEW a \in Accounts, X!MigrateLocalLogin(a) PROVE CutoverTypes'
  <2>1. run' \in Runs
    BY <1>7 DEF X!MigrateLocalLogin, Runs
  <2>. QED  BY <1>7, <2>1 DEF X!MigrateLocalLogin
<1>8. CASE X!Interrupted
  BY <1>8 DEF X!Interrupted
<1>9. CASE X!NewMarker
  <2>1. run' \in Runs /\ run # None
    BY <1>9, RunGoes DEF X!NewMarker
  <2>2. database # None
    BY <1>9, <2>1 DEF X!NewMarker, RunInv, In
  <2>3. database' \in Databases
    BY <1>9, <2>1, <2>2, MarkerWritten, RunParts DEF X!NewMarker
  <2>. QED  BY <1>9, <2>1, <2>3 DEF X!NewMarker
<1>10. CASE X!OldMarker
  BY <1>10 DEF X!OldMarker
<1>11. CASE X!Resume
  <2>1. run' \in Runs /\ run # None
    BY <1>11, RunGoes DEF X!Resume
  <2>2. Marked
    BY <1>11, <2>1 DEF X!Resume, RunInv, In, Copying
  <2>3. database' \in Databases
    BY <1>11, <2>1, <2>2, RowsWritten DEF X!Resume, Marked
  <2>. QED  BY <1>11, <2>1, <2>3 DEF X!Resume
<1>12. CASE X!EnsureConfigBackup
  BY <1>12 DEF X!EnsureConfigBackup
<1>13. CASE X!BackupBegins
  BY <1>13 DEF X!BackupBegins
<1>14. CASE X!BackupEnds
  BY <1>14 DEF X!BackupEnds
<1>15. CASE X!EnsureDatabaseBackup
  BY <1>15 DEF X!EnsureDatabaseBackup
<1>16. CASE X!UpgradeDatabase
  <2>1. run' \in Runs /\ run # None
    BY <1>16, RunGoes DEF X!UpgradeDatabase
  <2>2. Marked
    BY <1>16, <2>1 DEF X!UpgradeDatabase, RunInv, In, Copying
  <2>3. database' \in Databases
    BY <1>16, <2>1, <2>2, VersionWritten DEF X!UpgradeDatabase, Marked, X!MigrateLocalAuth, X!LocalAuthVersion
  <2>. QED  BY <1>16, <2>1, <2>3 DEF X!UpgradeDatabase, X!MigrateLocalAuth, X!LocalAuthVersion
<1>17. CASE X!SeedAccountAuth
  <2>1. run' \in Runs /\ run # None
    BY <1>17, RunGoes DEF X!SeedAccountAuth
  <2>2. Marked
    BY <1>17, <2>1 DEF X!SeedAccountAuth, RunInv, In, Copying
  <2>3. database' \in Databases
    BY <1>17, <2>1, <2>2, RowsWritten DEF X!SeedAccountAuth, Marked
  <2>. QED  BY <1>17, <2>1, <2>3 DEF X!SeedAccountAuth
<1>18. CASE X!DatabaseReady
  <2>1. run' \in Runs /\ run # None
    BY <1>18, RunGoes DEF X!DatabaseReady
  <2>2. Marked
    BY <1>18, <2>1 DEF X!DatabaseReady, RunInv, In, Copying
  <2>3. database' \in Databases
    BY <1>18, <2>1, <2>2, PhaseWritten DEF X!DatabaseReady, Marked
  <2>. QED  BY <1>18, <2>1, <2>3 DEF X!DatabaseReady
<1>19. CASE X!MigrateLocalAccounts
  <2>1. document' \in X!Documents
    BY <1>19, RunParts DEF X!MigrateLocalAccounts, X!Rewritten, X!Documents
  <2>2. run' \in Runs \cup {None}
    BY <1>19, RunGoes DEF X!MigrateLocalAccounts
  <2>. QED  BY <1>19, <2>1, <2>2 DEF X!MigrateLocalAccounts
<1>20. CASE X!Complete
  <2>1. Marked
    BY <1>20 DEF X!Complete, RunInv, In
  <2>2. database' \in Databases
    BY <1>20, <2>1, PhaseWritten DEF X!Complete
  <2>. QED  BY <1>20, <2>2 DEF X!Complete
<1>. QED
  BY <1>1, <1>2, <1>3, <1>4, <1>5, <1>6, <1>7, <1>8, <1>9, <1>10, <1>11, <1>12,
     <1>13, <1>14, <1>15, <1>16, <1>17, <1>18, <1>19, <1>20
  DEF X!Next

(* what is there at each place of a run,                                   *)
LEMMA RunKept == CutoverInv /\ X!Next => RunInv'
<1> SUFFICES ASSUME CutoverInv, X!Next PROVE RunInv'
  OBVIOUS
<1> USE CutoverAssumption, DatabaseParts, RunParts, RunGoes
    DEF X!At, X!Ends, X!Counters, X!Nothing, X!Idle, X!Record, In, Copying, Marked
<1>0. CutoverTypes /\ RunInv /\ UpgradeInv /\ X!WayBack /\ X!SignedOutOnce
  BY DEF CutoverInv
<1>1. ASSUME NEW local \in BOOLEAN, NEW boundTo \in Accounts \cup {None},
       X!EditConfig(local, boundTo) PROVE RunInv'
  BY <1>0, <1>1 DEF X!EditConfig, RunInv, UpgradeInv
<1>2. CASE X!RestoreConfig
  BY <1>0, <1>2 DEF X!RestoreConfig, RunInv, UpgradeInv
<1>3. CASE X!MoveAside
  BY <1>0, <1>3 DEF X!MoveAside, RunInv, UpgradeInv
<1>4. CASE X!StartDaemon
  BY <1>0, <1>4, RowsWritten DEF X!StartDaemon, X!CutoverDone,
     X!LocalAuthVersion, RunInv, UpgradeInv
<1>5. CASE X!StopDaemon
  BY <1>0, <1>5 DEF X!StopDaemon, RunInv, UpgradeInv
<1>6. CASE X!Login
  BY <1>0, <1>6 DEF X!Login, RunInv, UpgradeInv
<1>7. ASSUME NEW a \in Accounts, X!MigrateLocalLogin(a) PROVE RunInv'
  BY <1>0, <1>7 DEF X!MigrateLocalLogin, RunInv, UpgradeInv
<1>8. CASE X!Interrupted
  BY <1>0, <1>8 DEF X!Interrupted, RunInv, UpgradeInv
<1>9. CASE X!NewMarker
  <2>1. run # None /\ run.pc = "marker" /\ database # None
    BY <1>0, <1>9 DEF X!NewMarker, RunInv
  <2>2. /\ database' # None /\ database'.marker # None
        /\ database'.version = database.version
        /\ database'.marker.phase = "prepared"
        /\ database'.marker.digest = run.digest
    BY <1>0, <1>9, <2>1, MarkerWritten DEF X!NewMarker
  <2>3. run' # None /\ run'.pc = "resume" /\ run'.digest = run.digest
    BY <1>0, <1>9, <2>1 DEF X!NewMarker
  <2>. QED  BY <2>2, <2>3 DEF RunInv
<1>10. CASE X!OldMarker
  BY <1>0, <1>10 DEF X!OldMarker, RunInv, UpgradeInv
<1>11. CASE X!Resume
  BY <1>0, <1>11, RowsWritten DEF X!Resume, X!SameConfig, RunInv, UpgradeInv
<1>12. CASE X!EnsureConfigBackup
  BY <1>0, <1>12 DEF X!EnsureConfigBackup, RunInv, UpgradeInv
<1>13. CASE X!BackupBegins
  BY <1>0, <1>13 DEF X!BackupBegins, RunInv, UpgradeInv
<1>14. CASE X!BackupEnds
  BY <1>0, <1>14 DEF X!BackupEnds, X!LocalAuthVersion, RunInv, UpgradeInv
<1>15. CASE X!EnsureDatabaseBackup
  BY <1>0, <1>15 DEF X!EnsureDatabaseBackup, X!VerifyDatabaseBackup, RunInv,
     UpgradeInv
<1>16. CASE X!UpgradeDatabase
  <2>1. run # None /\ run.pc = "database" /\ Marked
    BY <1>0, <1>16 DEF X!UpgradeDatabase, RunInv
  <2>2. /\ database' # None /\ database'.marker = database.marker
        /\ database'.version = 10
    BY <1>0, <1>16, <2>1, VersionWritten
    DEF X!UpgradeDatabase, X!MigrateLocalAuth, X!LocalAuthVersion
  <2>3. run' # None /\ run'.pc = "seed" /\ run'.digest = run.digest
    BY <1>0, <1>16, <2>1 DEF X!UpgradeDatabase
  <2>4. configCopy' = configCopy /\ databaseCopy' = databaseCopy
    BY <1>16 DEF X!UpgradeDatabase
  <2>. QED  BY <1>0, <2>1, <2>2, <2>3, <2>4 DEF RunInv
<1>17. CASE X!SeedAccountAuth
  <2>1. run # None /\ run.pc = "seed" /\ Marked
    BY <1>0, <1>17 DEF X!SeedAccountAuth, RunInv
  <2>2. /\ database' # None /\ database'.marker # None
        /\ database'.version = database.version
        /\ database'.marker = database.marker
    BY <1>0, <1>17, <2>1, RowsWritten DEF X!SeedAccountAuth
  <2>3. /\ configCopy' = configCopy /\ databaseCopy' = databaseCopy
        /\ daemon' = daemon /\ issued' = issued
    BY <1>17 DEF X!SeedAccountAuth
  <2>. QED  BY <1>0, <1>17, <2>1, <2>2, <2>3 DEF X!SeedAccountAuth, RunInv, UpgradeInv
<1>18. CASE X!DatabaseReady
  BY <1>0, <1>18, PhaseWritten DEF X!DatabaseReady, RunInv, UpgradeInv
<1>19. CASE X!MigrateLocalAccounts
  BY <1>0, <1>19 DEF X!MigrateLocalAccounts, X!Rewritten, RunInv, UpgradeInv
<1>20. CASE X!Complete
  BY <1>0, <1>20, PhaseWritten DEF X!Complete, RunInv, UpgradeInv
<1>. QED
  BY <1>1, <1>2, <1>3, <1>4, <1>5, <1>6, <1>7, <1>8, <1>9, <1>10, <1>11, <1>12,
     <1>13, <1>14, <1>15, <1>16, <1>17, <1>18, <1>19, <1>20
  DEF X!Next

(* what an upgrade leaves,                                                 *)
LEMMA UpgradeKept == CutoverInv /\ X!Next => UpgradeInv'
<1> SUFFICES ASSUME CutoverInv, X!Next PROVE UpgradeInv'
  OBVIOUS
<1> USE CutoverAssumption, DatabaseParts, RunParts, RunGoes
    DEF X!At, X!Ends, X!Counters, X!Nothing, X!Idle, X!Record, In, Copying, Marked
<1>0. CutoverTypes /\ RunInv /\ UpgradeInv /\ X!WayBack /\ X!SignedOutOnce
  BY DEF CutoverInv
<1>1. ASSUME NEW local \in BOOLEAN, NEW boundTo \in Accounts \cup {None},
       X!EditConfig(local, boundTo) PROVE UpgradeInv'
  BY <1>0, <1>1 DEF X!EditConfig, CutoverTypes, RunInv, UpgradeInv,
     X!SignedOutOnce, X!Google
<1>2. CASE X!RestoreConfig
  BY <1>0, <1>2 DEF X!RestoreConfig, CutoverTypes, RunInv, UpgradeInv,
     X!SignedOutOnce, X!Google
<1>3. CASE X!MoveAside
  BY <1>0, <1>3 DEF X!MoveAside, CutoverTypes, RunInv, UpgradeInv,
     X!SignedOutOnce, X!Google
<1>4. CASE X!StartDaemon
  <2>1. /\ run = None /\ run' = None /\ logins' = logins /\ issued' = issued
        /\ upgraded' = upgraded
        /\ database' # None /\ database'.version = 10
    BY <1>0, <1>4, RowsWritten
    DEF X!StartDaemon, X!CutoverDone, X!LocalAuthVersion, CutoverTypes, Databases
  <2>2. database # None =>
            database.version = 10 /\ database'.marker = database.marker
    BY <1>0, <1>4, RowsWritten
    DEF X!StartDaemon, X!CutoverDone, X!LocalAuthVersion
  <2>. QED  BY <1>0, <2>1, <2>2 DEF UpgradeInv
<1>5. CASE X!StopDaemon
  BY <1>0, <1>5 DEF X!StopDaemon, CutoverTypes, RunInv, UpgradeInv,
     X!SignedOutOnce, X!Google
<1>6. CASE X!Login
  BY <1>0, <1>6 DEF X!Login, CutoverTypes, RunInv, UpgradeInv, X!SignedOutOnce,
     X!Google
<1>7. ASSUME NEW a \in Accounts, X!MigrateLocalLogin(a) PROVE UpgradeInv'
  BY <1>0, <1>7 DEF X!MigrateLocalLogin, CutoverTypes, RunInv, UpgradeInv,
     X!SignedOutOnce, X!Google
<1>8. CASE X!Interrupted
  BY <1>0, <1>8 DEF X!Interrupted, CutoverTypes, RunInv, UpgradeInv,
     X!SignedOutOnce, X!Google
<1>9. CASE X!NewMarker
  <2>1. run # None /\ run.pc = "marker" /\ database # None
    BY <1>0, <1>9 DEF X!NewMarker, RunInv
  <2>2. /\ database' # None /\ database'.version = database.version
        /\ database'.marker # None
    BY <1>0, <1>9, <2>1, MarkerWritten DEF X!NewMarker, RunInv
  <2>3. UNCHANGED <<logins, issued, daemon, upgraded>>
    BY <1>9 DEF X!NewMarker
  <2>. QED  BY <1>0, <2>1, <2>2, <2>3 DEF UpgradeInv
<1>10. CASE X!OldMarker
  BY <1>0, <1>10 DEF X!OldMarker, CutoverTypes, RunInv, UpgradeInv,
     X!SignedOutOnce, X!Google
<1>11. CASE X!Resume
  <2>1. run # None /\ run.pc = "resume" /\ database # None
    BY <1>0, <1>11 DEF X!Resume, RunInv
  <2>2. /\ database' # None /\ database'.version = database.version
        /\ database'.marker = database.marker
    BY <1>0, <1>11, <2>1, RowsWritten DEF X!Resume, RunInv
  <2>3. UNCHANGED <<logins, issued, daemon, upgraded>>
    BY <1>11 DEF X!Resume
  <2>. QED  BY <1>0, <2>1, <2>2, <2>3 DEF UpgradeInv
<1>12. CASE X!EnsureConfigBackup
  BY <1>0, <1>12 DEF X!EnsureConfigBackup, CutoverTypes, RunInv, UpgradeInv,
     X!SignedOutOnce, X!Google
<1>13. CASE X!BackupBegins
  BY <1>0, <1>13 DEF X!BackupBegins, CutoverTypes, RunInv, UpgradeInv,
     X!SignedOutOnce, X!Google
<1>14. CASE X!BackupEnds
  BY <1>0, <1>14 DEF X!BackupEnds, X!LocalAuthVersion, CutoverTypes, RunInv,
     UpgradeInv, X!SignedOutOnce, X!Google
<1>15. CASE X!EnsureDatabaseBackup
  BY <1>0, <1>15 DEF X!EnsureDatabaseBackup, X!VerifyDatabaseBackup, CutoverTypes,
     RunInv, UpgradeInv, X!SignedOutOnce, X!Google
<1>16. CASE X!UpgradeDatabase
  <2>1. run # None /\ run.pc = "database" /\ Marked
    BY <1>0, <1>16 DEF X!UpgradeDatabase, RunInv
  <2>2. /\ database' # None /\ database'.marker = database.marker
        /\ database'.version = 10 /\ daemon' = daemon /\ issued' = issued
    BY <1>0, <1>16, <2>1, VersionWritten
    DEF X!UpgradeDatabase, X!MigrateLocalAuth, X!LocalAuthVersion
  <2>3. 0 \notin logins'
    BY <1>0, <1>16, <2>1
    DEF X!UpgradeDatabase, X!MigrateLocalAuth, X!LocalAuthVersion, UpgradeInv
  <2>. QED  BY <1>0, <2>1, <2>2, <2>3 DEF UpgradeInv
<1>17. CASE X!SeedAccountAuth
  <2>1. run # None /\ run.pc = "seed" /\ database # None
    BY <1>0, <1>17 DEF X!SeedAccountAuth, RunInv
  <2>2. /\ database' # None /\ database'.version = database.version
        /\ database'.marker = database.marker
    BY <1>0, <1>17, <2>1, RowsWritten DEF X!SeedAccountAuth, RunInv
  <2>3. UNCHANGED <<logins, issued, daemon, upgraded>>
    BY <1>17 DEF X!SeedAccountAuth
  <2>. QED  BY <1>0, <2>1, <2>2, <2>3 DEF UpgradeInv
<1>18. CASE X!DatabaseReady
  <2>1. run # None /\ run.pc = "ready" /\ database # None
    BY <1>0, <1>18 DEF X!DatabaseReady, RunInv
  <2>2. /\ database' # None /\ database'.version = database.version
        /\ database'.marker # None
    BY <1>0, <1>18, <2>1, PhaseWritten DEF X!DatabaseReady, RunInv
  <2>3. UNCHANGED <<logins, issued, daemon, upgraded>>
    BY <1>18 DEF X!DatabaseReady
  <2>. QED  BY <1>0, <2>1, <2>2, <2>3 DEF UpgradeInv
<1>19. CASE X!MigrateLocalAccounts
  BY <1>0, <1>19 DEF X!MigrateLocalAccounts, X!Rewritten, CutoverTypes, RunInv,
     UpgradeInv, X!SignedOutOnce, X!Google
<1>20. CASE X!Complete
  <2>1. run # None /\ run.pc = "done" /\ database # None
    BY <1>0, <1>20 DEF X!Complete, RunInv
  <2>2. /\ database' # None /\ database'.version = database.version
        /\ database'.marker # None
    BY <1>0, <1>20, <2>1, PhaseWritten DEF X!Complete, RunInv
  <2>3. UNCHANGED <<logins, issued, daemon, upgraded>>
    BY <1>20 DEF X!Complete
  <2>. QED  BY <1>0, <2>1, <2>2, <2>3 DEF UpgradeInv
<1>. QED
  BY <1>1, <1>2, <1>3, <1>4, <1>5, <1>6, <1>7, <1>8, <1>9, <1>10, <1>11, <1>12,
     <1>13, <1>14, <1>15, <1>16, <1>17, <1>18, <1>19, <1>20
  DEF X!Next

(* both backups whole before anything is changed,                          *)
LEMMA WayBackKept == CutoverInv /\ X!Next => X!WayBack'
<1> SUFFICES ASSUME CutoverInv, X!Next PROVE X!WayBack'
  OBVIOUS
<1> USE CutoverAssumption, DatabaseParts, RunParts, RunGoes
    DEF X!At, X!Ends, X!Counters, X!Nothing, X!Idle, X!Record, In, Copying, Marked
<1>0. CutoverTypes /\ RunInv /\ UpgradeInv /\ X!WayBack /\ X!SignedOutOnce
  BY DEF CutoverInv
<1>1. ASSUME NEW local \in BOOLEAN, NEW boundTo \in Accounts \cup {None},
       X!EditConfig(local, boundTo) PROVE X!WayBack'
  BY <1>0, <1>1 DEF X!EditConfig, RunInv, UpgradeInv, X!WayBack
<1>2. CASE X!RestoreConfig
  BY <1>0, <1>2 DEF X!RestoreConfig, RunInv, UpgradeInv, X!WayBack
<1>3. CASE X!MoveAside
  BY <1>0, <1>3 DEF X!MoveAside, RunInv, UpgradeInv, X!WayBack
<1>4. CASE X!StartDaemon
  BY <1>0, <1>4, RowsWritten DEF X!StartDaemon, X!CutoverDone,
     X!LocalAuthVersion, RunInv, UpgradeInv, X!WayBack
<1>5. CASE X!StopDaemon
  BY <1>0, <1>5 DEF X!StopDaemon, RunInv, UpgradeInv, X!WayBack
<1>6. CASE X!Login
  BY <1>0, <1>6 DEF X!Login, RunInv, UpgradeInv, X!WayBack
<1>7. ASSUME NEW a \in Accounts, X!MigrateLocalLogin(a) PROVE X!WayBack'
  BY <1>0, <1>7 DEF X!MigrateLocalLogin, RunInv, UpgradeInv, X!WayBack
<1>8. CASE X!Interrupted
  BY <1>0, <1>8 DEF X!Interrupted, RunInv, UpgradeInv, X!WayBack
<1>9. CASE X!NewMarker
  BY <1>0, <1>9, MarkerWritten DEF X!NewMarker, RunInv, UpgradeInv, X!WayBack
<1>10. CASE X!OldMarker
  BY <1>0, <1>10 DEF X!OldMarker, RunInv, UpgradeInv, X!WayBack
<1>11. CASE X!Resume
  BY <1>0, <1>11, RowsWritten DEF X!Resume, X!SameConfig, RunInv, UpgradeInv,
     X!WayBack
<1>12. CASE X!EnsureConfigBackup
  BY <1>0, <1>12 DEF X!EnsureConfigBackup, RunInv, UpgradeInv, X!WayBack
<1>13. CASE X!BackupBegins
  BY <1>0, <1>13 DEF X!BackupBegins, RunInv, UpgradeInv, X!WayBack
<1>14. CASE X!BackupEnds
  BY <1>0, <1>14 DEF X!BackupEnds, X!LocalAuthVersion, RunInv, UpgradeInv,
     X!WayBack
<1>15. CASE X!EnsureDatabaseBackup
  BY <1>0, <1>15 DEF X!EnsureDatabaseBackup, X!VerifyDatabaseBackup, RunInv,
     UpgradeInv, X!WayBack
<1>16. CASE X!UpgradeDatabase
  BY <1>0, <1>16, VersionWritten DEF X!UpgradeDatabase, X!MigrateLocalAuth,
     X!LocalAuthVersion, RunInv, UpgradeInv, X!WayBack
<1>17. CASE X!SeedAccountAuth
  BY <1>0, <1>17, RowsWritten DEF X!SeedAccountAuth, RunInv, UpgradeInv, X!WayBack
<1>18. CASE X!DatabaseReady
  BY <1>0, <1>18, PhaseWritten DEF X!DatabaseReady, RunInv, UpgradeInv, X!WayBack
<1>19. CASE X!MigrateLocalAccounts
  BY <1>0, <1>19 DEF X!MigrateLocalAccounts, X!Rewritten, RunInv, UpgradeInv,
     X!WayBack
<1>20. CASE X!Complete
  BY <1>0, <1>20, PhaseWritten DEF X!Complete, RunInv, UpgradeInv, X!WayBack
<1>. QED
  BY <1>1, <1>2, <1>3, <1>4, <1>5, <1>6, <1>7, <1>8, <1>9, <1>10, <1>11, <1>12,
     <1>13, <1>14, <1>15, <1>16, <1>17, <1>18, <1>19, <1>20
  DEF X!Next

(* and nobody signed in from before it.                                    *)
LEMMA SignedOutKept == CutoverInv /\ X!Next => X!SignedOutOnce'
<1> SUFFICES ASSUME CutoverInv, X!Next PROVE X!SignedOutOnce'
  OBVIOUS
<1> USE CutoverAssumption, DatabaseParts, RunParts, RunGoes
    DEF X!At, X!Ends, X!Counters, X!Nothing, X!Idle, X!Record, In, Copying, Marked
<1>0. CutoverTypes /\ RunInv /\ UpgradeInv /\ X!WayBack /\ X!SignedOutOnce
  BY DEF CutoverInv
<1>1. ASSUME NEW local \in BOOLEAN, NEW boundTo \in Accounts \cup {None},
       X!EditConfig(local, boundTo) PROVE X!SignedOutOnce'
  BY <1>0, <1>1 DEF X!EditConfig, CutoverTypes, RunInv, UpgradeInv,
     X!SignedOutOnce, X!Google
<1>2. CASE X!RestoreConfig
  BY <1>0, <1>2 DEF X!RestoreConfig, CutoverTypes, RunInv, UpgradeInv,
     X!SignedOutOnce, X!Google
<1>3. CASE X!MoveAside
  BY <1>0, <1>3 DEF X!MoveAside, CutoverTypes, RunInv, UpgradeInv,
     X!SignedOutOnce, X!Google
<1>4. CASE X!StartDaemon
  <2>1. /\ document.local /\ document' = document
        /\ logins' = logins /\ issued' = issued
    BY <1>4 DEF X!StartDaemon
  <2>2. database'.rows = Accounts
    BY <1>0, <1>4, RowsWritten DEF X!StartDaemon
  <2>3. 0 \notin logins
    <3>1. CASE database = None
      BY <1>0, <3>1 DEF UpgradeInv
    <3>2. CASE database # None
      BY <1>0, <1>4, <3>2
      DEF X!StartDaemon, X!CutoverDone, X!LocalAuthVersion, UpgradeInv
    <3>. QED  BY <3>1, <3>2
  <2>. QED  BY <1>0, <2>1, <2>2, <2>3 DEF X!SignedOutOnce, X!Google
<1>5. CASE X!StopDaemon
  BY <1>0, <1>5 DEF X!StopDaemon, CutoverTypes, RunInv, UpgradeInv,
     X!SignedOutOnce, X!Google
<1>6. CASE X!Login
  BY <1>0, <1>6 DEF X!Login, CutoverTypes, RunInv, UpgradeInv, X!SignedOutOnce,
     X!Google
<1>7. ASSUME NEW a \in Accounts, X!MigrateLocalLogin(a) PROVE X!SignedOutOnce'
  BY <1>0, <1>7 DEF X!MigrateLocalLogin, CutoverTypes, RunInv, UpgradeInv,
     X!SignedOutOnce, X!Google
<1>8. CASE X!Interrupted
  BY <1>0, <1>8 DEF X!Interrupted, CutoverTypes, RunInv, UpgradeInv,
     X!SignedOutOnce, X!Google
<1>9. CASE X!NewMarker
  BY <1>0, <1>9, MarkerWritten DEF X!NewMarker, CutoverTypes, RunInv, UpgradeInv,
     X!SignedOutOnce, X!Google
<1>10. CASE X!OldMarker
  BY <1>0, <1>10 DEF X!OldMarker, CutoverTypes, RunInv, UpgradeInv,
     X!SignedOutOnce, X!Google
<1>11. CASE X!Resume
  BY <1>0, <1>11, RowsWritten DEF X!Resume, X!SameConfig, CutoverTypes, RunInv,
     UpgradeInv, X!SignedOutOnce, X!Google
<1>12. CASE X!EnsureConfigBackup
  BY <1>0, <1>12 DEF X!EnsureConfigBackup, CutoverTypes, RunInv, UpgradeInv,
     X!SignedOutOnce, X!Google
<1>13. CASE X!BackupBegins
  BY <1>0, <1>13 DEF X!BackupBegins, CutoverTypes, RunInv, UpgradeInv,
     X!SignedOutOnce, X!Google
<1>14. CASE X!BackupEnds
  BY <1>0, <1>14 DEF X!BackupEnds, X!LocalAuthVersion, CutoverTypes, RunInv,
     UpgradeInv, X!SignedOutOnce, X!Google
<1>15. CASE X!EnsureDatabaseBackup
  BY <1>0, <1>15 DEF X!EnsureDatabaseBackup, X!VerifyDatabaseBackup, CutoverTypes,
     RunInv, UpgradeInv, X!SignedOutOnce, X!Google
<1>16. CASE X!UpgradeDatabase
  BY <1>0, <1>16, VersionWritten DEF X!UpgradeDatabase, X!MigrateLocalAuth,
     X!LocalAuthVersion, CutoverTypes, RunInv, UpgradeInv, X!SignedOutOnce,
     X!Google
<1>17. CASE X!SeedAccountAuth
  BY <1>0, <1>17, RowsWritten DEF X!SeedAccountAuth, CutoverTypes, RunInv,
     UpgradeInv, X!SignedOutOnce, X!Google
<1>18. CASE X!DatabaseReady
  BY <1>0, <1>18, PhaseWritten DEF X!DatabaseReady, CutoverTypes, RunInv,
     UpgradeInv, X!SignedOutOnce, X!Google
<1>19. CASE X!MigrateLocalAccounts
  BY <1>0, <1>19 DEF X!MigrateLocalAccounts, X!Rewritten, CutoverTypes, RunInv,
     UpgradeInv, X!SignedOutOnce, X!Google
<1>20. CASE X!Complete
  BY <1>0, <1>20, PhaseWritten DEF X!Complete, CutoverTypes, RunInv, UpgradeInv,
     X!SignedOutOnce, X!Google
<1>. QED
  BY <1>1, <1>2, <1>3, <1>4, <1>5, <1>6, <1>7, <1>8, <1>9, <1>10, <1>11, <1>12,
     <1>13, <1>14, <1>15, <1>16, <1>17, <1>18, <1>19, <1>20
  DEF X!Next

(* The cutover as it is at first.                                          *)
LEMMA CutoverInit == X!Init => CutoverInv
<1> SUFFICES ASSUME X!Init PROVE CutoverInv
  OBVIOUS
<1> USE CutoverAssumption
<1>1. CutoverTypes
  <2>1. database \in Databases \cup {None}
    BY DEF X!Init, Databases
  <2>2. logins \subseteq {0} \cup (1 .. MaxLogins)
    BY DEF X!Init, X!Google
  <2>3. issued \in 0..MaxLogins /\ ownerSteps \in 0..MaxOwnerSteps
    BY DEF X!Init
  <2>4. upgraded \in BOOLEAN /\ daemon \in BOOLEAN
    BY Zenon DEF X!Init
  <2>5. /\ document \in X!Documents /\ configCopy \in X!Documents \cup {None}
        /\ databaseCopy \in {None, "partial", "before", "after"}
        /\ run \in Runs \cup {None}
    BY DEF X!Init
  <2>. QED  BY <2>1, <2>2, <2>3, <2>4, <2>5 DEF CutoverTypes
<1>2. RunInv
  BY DEF X!Init, RunInv, In
<1>3. UpgradeInv
  BY DEF X!Init, UpgradeInv
<1>4. X!WayBack /\ X!SignedOutOnce
  BY DEF X!Init, X!WayBack, X!SignedOutOnce
<1>. QED  BY <1>1, <1>2, <1>3, <1>4 DEF CutoverInv

(* Nothing of it changes while none of its variables does.                 *)
LEMMA CutoverStays == CutoverInv /\ UNCHANGED cutoverVars => CutoverInv'
  BY DEF cutoverVars, CutoverInv, CutoverTypes, RunInv, UpgradeInv, In, Marked,
         X!WayBack, X!SignedOutOnce

(* So every step keeps the invariant.                                      *)
LEMMA CutoverKept == CutoverInv /\ X!Next => CutoverInv'
  BY CutoverTypesKept, RunKept, UpgradeKept, WayBackKept, SignedOutKept
  DEF CutoverInv

(* What the invariant says of types.                                       *)
LEMMA CutoverTyped == CutoverInv => X!TypeOK
  BY DatabaseParts DEF CutoverInv, CutoverTypes, X!TypeOK, X!LocalAuthVersion, X!Google

-----------------------------------------------------------------------------
(* Accounts and what is issued to them                                     *)

(* The rows of accounts, links, sessions and what a request holds of them. *)
Rows == [gen : Nat, pw : Nat, retired : BOOLEAN]
Links == [n : Nat, sender : AccountsSenders, gen : Nat]
Sessions == [id : AccountsIds, gen : Nat,
             by : ({"password"} \X Nat) \cup ({"link"} \X Nat \X Reqs)]
Requests ==
    [op : {None}]
    \cup [op : {"login"}, id : AccountsIds, gen : Nat, pw : Nat]
    \cup [op : {"change", "set"}, id : AccountsIds, gen : Nat]
    \cup [op : {"register", "read", "retire", "unpair"}, id : AccountsIds]
    \cup [op : {"mint"}, id : AccountsIds, sender : AccountsSenders, n : Nat]
    \cup [op : {"redeem"}, id : AccountsIds, link : Links]
    \cup [op : {"bind"}, id : AccountsIds, sender : AccountsSenders]
    \cup [op : {"finish"}, id : AccountsIds, bound : BOOLEAN]

(* Types of the accounts.                                                  *)
RowTypes ==
    /\ member \in [AccountsIds -> {None, 0} \cup AccountsSenders]
    /\ auth \in [AccountsIds -> Rows \cup {None}]
    /\ webLink \in [AccountsIds -> Links \cup {None}]
    /\ idLink \in [AccountsIds -> {None, "open", "claimed"}]
    /\ session \subseteq Sessions
    /\ req \in [Reqs -> Requests]
    /\ starts \in Nat

(* The session was opened by a login link; the request has made a number   *)
(* for a link that is not stored yet.                                      *)
ByLink(s) == s.by[1] = "link"
Mints(r) == req[r].op = "mint"

(* A number of a link is given once: no two links, requests or sessions of *)
(* different links share one.                                              *)
NumbersInv ==
    /\ \A s \in session : ByLink(s) => s.by[2] <= starts
    /\ \A i \in AccountsIds : webLink[i] # None => webLink[i].n <= starts
    /\ \A r \in Reqs : Mints(r) => req[r].n <= starts
    /\ \A i, j \in AccountsIds :
          webLink[i] # None /\ webLink[j] # None /\ webLink[i].n = webLink[j].n
          => i = j
    /\ \A r, q \in Reqs : Mints(r) /\ Mints(q) /\ req[r].n = req[q].n => r = q
    /\ \A r \in Reqs : Mints(r) =>
          /\ \A i \in AccountsIds : webLink[i] # None => webLink[i].n # req[r].n
          /\ \A s \in session : ByLink(s) => s.by[2] # req[r].n

(* The inductive invariant of the accounts.                                *)
AccountsInv == RowTypes /\ P!IssuedIsCurrent /\ P!LinkSignsInOnce /\ NumbersInv

(* What the invariant says of types.                                       *)
LEMMA AccountsTypes == RowTypes => P!TypeOK
  BY AccountsAssumption DEF RowTypes, P!TypeOK, Rows, Links, Sessions

(* What a request that runs has in hand. *)
LEMMA RequestParts ==
  ASSUME RowTypes, NEW r \in Reqs
  PROVE  /\ req[r] \in Requests
         /\ req[r].op # None => req[r].id \in AccountsIds
         /\ req[r].op = "login" => req[r].gen \in Nat /\ req[r].pw \in Nat
         /\ req[r].op \in {"change", "set"} => req[r].gen \in Nat
         /\ req[r].op = "mint" => req[r].n \in Nat /\ req[r].sender \in AccountsSenders
         /\ req[r].op = "redeem" => req[r].link \in Links
         /\ req[r].op = "bind" => req[r].sender \in AccountsSenders
         /\ req[r].op = "finish" => req[r].bound \in BOOLEAN
  BY AccountsAssumption DEF RowTypes, Requests

(* The requests that are made. *)
LEMMA NewRequests ==
  ASSUME NEW id \in AccountsIds
  PROVE  /\ P!Idle \in Requests
         /\ \A g \in Nat, p \in Nat :
               [op |-> "login", id |-> id, gen |-> g, pw |-> p] \in Requests
         /\ \A g \in Nat : /\ [op |-> "change", id |-> id, gen |-> g] \in Requests
                           /\ [op |-> "set", id |-> id, gen |-> g] \in Requests
         /\ /\ [op |-> "register", id |-> id] \in Requests
            /\ [op |-> "read", id |-> id] \in Requests
            /\ [op |-> "retire", id |-> id] \in Requests
            /\ [op |-> "unpair", id |-> id] \in Requests
         /\ \A s \in AccountsSenders, n \in Nat :
               [op |-> "mint", id |-> id, sender |-> s, n |-> n] \in Requests
         /\ \A l \in Links : [op |-> "redeem", id |-> id, link |-> l] \in Requests
         /\ \A s \in AccountsSenders :
               [op |-> "bind", id |-> id, sender |-> s] \in Requests
         /\ \A b \in BOOLEAN : [op |-> "finish", id |-> id, bound |-> b] \in Requests
  BY DEF Requests, P!Idle

(* A request that is over.                                                 *)
LEMMA IdleRequest == P!Idle \in Requests
  BY DEF Requests, P!Idle

(* A request that begins has its type,                                     *)
LEMMA BeginsTyped ==
  ASSUME RowTypes, NEW r \in Reqs, NEW new \in Requests, P!Begins(r, new)
  PROVE  req' \in [Reqs -> Requests] /\ starts' \in Nat
  BY DEF RowTypes, P!Begins

(* so has one that goes on,                                                *)
LEMMA GoesTyped ==
  ASSUME RowTypes, NEW r \in Reqs, NEW new \in Requests, P!Goes(r, new)
  PROVE  req' \in [Reqs -> Requests] /\ starts' \in Nat
  BY DEF RowTypes, P!Goes

(* The rows of one account, one by one. *)
LEMMA RowParts ==
  ASSUME RowTypes, NEW id \in AccountsIds
  PROVE  /\ auth[id] # None => /\ auth[id] \in Rows
                               /\ auth[id].gen \in Nat /\ auth[id].pw \in Nat
                               /\ auth[id].retired \in BOOLEAN
         /\ webLink[id] # None => /\ webLink[id] \in Links
                                  /\ webLink[id].gen \in Nat /\ webLink[id].n \in Nat
         /\ member[id] \in {None, 0} \cup AccountsSenders
  BY DEF RowTypes, Rows, Links

(* so have the rows when a generation is advanced,                         *)
LEMMA AdvancesTyped ==
  ASSUME RowTypes, NEW id \in AccountsIds, NEW pw \in Nat, NEW retired \in BOOLEAN,
         auth[id] # None, P!Advances(id, pw, retired)
  PROVE  /\ auth' \in [AccountsIds -> Rows \cup {None}]
         /\ webLink' \in [AccountsIds -> Links \cup {None}]
         /\ session' \subseteq Sessions
<1>1. P!Row(auth[id].gen + 1, pw, retired) \in Rows
  BY RowParts DEF P!Row, Rows
<1>. QED  BY <1>1 DEF P!Advances, P!RevokeIssued, RowTypes

(* when a password is set,                                                 *)
LEMMA SetPasswordTyped ==
  ASSUME RowTypes, NEW r \in Reqs, req[r].op # None, P!SetAccountPassword(r)
  PROVE  /\ auth' \in [AccountsIds -> Rows \cup {None}]
         /\ webLink' \in [AccountsIds -> Links \cup {None}]
         /\ session' \subseteq Sessions
<1>1. req[r].id \in AccountsIds
  BY RequestParts
<1>2. CASE P!MayInsert(req[r].id, req[r].gen)
  <2>1. auth[req[r].id] # None /\ auth[req[r].id].gen + 1 \in Nat
    BY <1>1, <1>2, RowParts DEF P!MayInsert, P!Live
  <2>. QED  BY <1>1, <1>2, <2>1, AdvancesTyped DEF P!SetAccountPassword
<1>3. CASE ~P!MayInsert(req[r].id, req[r].gen)
  BY <1>3 DEF P!SetAccountPassword, RowTypes
<1>. QED  BY <1>2, <1>3

(* and when a session is issued.                                           *)
LEMMA IssueTyped ==
  ASSUME RowTypes, NEW id \in AccountsIds, NEW gen \in Nat,
         NEW by \in ({"password"} \X Nat) \cup ({"link"} \X Nat \X Reqs),
         P!Issue(id, gen, by)
  PROVE  session' \subseteq Sessions
  BY DEF P!Issue, RowTypes, Sessions

(* Every step of a request keeps the types.                                *)
LEMMA RowTypesKept == RowTypes /\ P!Next => RowTypes'
<1> SUFFICES ASSUME RowTypes, P!Next PROVE RowTypes'
  OBVIOUS
<1> USE AccountsAssumption DEF RowTypes
<1>1. ASSUME NEW r \in Reqs, NEW id \in AccountsIds, P!LoginVerify(r, id) PROVE
       RowTypes'
  <2>1. PICK new \in Requests : P!Begins(r, new)
    BY <1>1, NewRequests, RowParts DEF P!LoginVerify, P!Live
  <2>2. req' \in [Reqs -> Requests] /\ starts' \in Nat
    BY <2>1, BeginsTyped
  <2>. QED  BY <1>1, <2>2 DEF P!LoginVerify
<1>2. ASSUME NEW r \in Reqs, NEW id \in AccountsIds, P!ChangeVerify(r, id)
       PROVE RowTypes'
  <2>1. PICK new \in Requests : P!Begins(r, new)
    BY <1>2, NewRequests, RowParts DEF P!ChangeVerify, P!Live
  <2>2. req' \in [Reqs -> Requests] /\ starts' \in Nat
    BY <2>1, BeginsTyped
  <2>. QED  BY <1>2, <2>2 DEF P!ChangeVerify
<1>3. ASSUME NEW r \in Reqs, NEW id \in AccountsIds, P!AddAccount(r, id) PROVE
       RowTypes'
  <2>1. PICK new \in Requests : P!Begins(r, new)
    BY <1>3, NewRequests DEF P!AddAccount
  <2>2. req' \in [Reqs -> Requests] /\ starts' \in Nat
    BY <2>1, BeginsTyped
  <2>. QED  BY <1>3, <2>2 DEF P!AddAccount
<1>4. ASSUME NEW r \in Reqs, NEW id \in AccountsIds, P!RemoveAccount(r, id)
       PROVE RowTypes'
  <2>1. PICK new \in Requests : P!Begins(r, new)
    BY <1>4, NewRequests DEF P!RemoveAccount
  <2>2. req' \in [Reqs -> Requests] /\ starts' \in Nat
    BY <2>1, BeginsTyped
  <2>. QED  BY <1>4, <2>2 DEF P!RemoveAccount
<1>5. ASSUME NEW r \in Reqs, NEW id \in AccountsIds, P!AskLink(r, id) PROVE
       RowTypes'
  <2>1. PICK new \in Requests : P!Begins(r, new)
    <3>1. member[id] \in AccountsSenders /\ starts + 1 \in Nat
      BY <1>5 DEF P!AskLink
    <3>. QED  BY <1>5, <3>1, NewRequests DEF P!AskLink
  <2>2. req' \in [Reqs -> Requests] /\ starts' \in Nat
    BY <2>1, BeginsTyped
  <2>. QED  BY <1>5, <2>2 DEF P!AskLink
<1>6. ASSUME NEW r \in Reqs, NEW id \in AccountsIds, P!ReadLink(r, id) PROVE
       RowTypes'
  <2>1. PICK new \in Requests : P!Begins(r, new)
    BY <1>6, NewRequests, RowParts DEF P!ReadLink
  <2>2. req' \in [Reqs -> Requests] /\ starts' \in Nat
    BY <2>1, BeginsTyped
  <2>. QED  BY <1>6, <2>2 DEF P!ReadLink
<1>7. ASSUME NEW r \in Reqs, NEW id \in AccountsIds, P!Unlink(r, id) PROVE
       RowTypes'
  <2>1. PICK new \in Requests : P!Begins(r, new)
    BY <1>7, NewRequests DEF P!Unlink
  <2>2. req' \in [Reqs -> Requests] /\ starts' \in Nat
    BY <2>1, BeginsTyped
  <2>. QED  BY <1>7, <2>2 DEF P!Unlink
<1>8. ASSUME NEW r \in Reqs, NEW id \in AccountsIds, NEW sender \in
       AccountsSenders, P!ClaimIdentityLink(r, id, sender) PROVE RowTypes'
  <2>1. PICK new \in Requests : P!Begins(r, new)
    BY <1>8, NewRequests DEF P!ClaimIdentityLink
  <2>2. req' \in [Reqs -> Requests] /\ starts' \in Nat
    BY <2>1, BeginsTyped
  <2>. QED  BY <1>8, <2>2 DEF P!ClaimIdentityLink
<1>9. ASSUME NEW id \in AccountsIds, P!RevokeSessions(id) PROVE RowTypes'
  <2>1. /\ auth' \in [AccountsIds -> Rows \cup {None}]
        /\ webLink' \in [AccountsIds -> Links \cup {None}]
        /\ session' \subseteq Sessions
    BY <1>9, RowParts, AdvancesTyped DEF P!RevokeSessions, P!Live
  <2>. QED  BY <1>9, <2>1 DEF P!RevokeSessions
<1>10. ASSUME NEW id \in AccountsIds, P!LinkExpires(id) PROVE RowTypes'
  BY <1>10 DEF P!LinkExpires
<1>11. ASSUME NEW id \in AccountsIds, P!CreateIdentityLink(id) PROVE RowTypes'
  BY <1>11 DEF P!CreateIdentityLink
<1>12. ASSUME NEW id \in AccountsIds, P!IdentityLinkExpires(id) PROVE RowTypes'
  BY <1>12 DEF P!IdentityLinkExpires
<1>13. ASSUME NEW r \in Reqs, P!LoginCommit(r) PROVE RowTypes'
  <2>1. PICK new \in Requests : P!Goes(r, new)
    BY <1>13, NewRequests, IdleRequest, RequestParts DEF P!LoginCommit, P!Ends, P!At
  <2>2. req' \in [Reqs -> Requests] /\ starts' \in Nat
    BY <2>1, GoesTyped
  <2>3. session' \subseteq Sessions
    BY <1>13, RequestParts, IssueTyped DEF P!LoginCommit, P!At
  <2>. QED  BY <1>13, <2>2, <2>3 DEF P!LoginCommit
<1>14. ASSUME NEW r \in Reqs, P!ChangeCommit(r) PROVE RowTypes'
  <2>1. PICK new \in Requests : P!Goes(r, new)
    BY <1>14, NewRequests, IdleRequest, RequestParts DEF P!ChangeCommit, P!Ends, P!At
  <2>2. req' \in [Reqs -> Requests] /\ starts' \in Nat
    BY <2>1, GoesTyped
  <2>3. /\ auth' \in [AccountsIds -> Rows \cup {None}]
        /\ webLink' \in [AccountsIds -> Links \cup {None}]
        /\ session' \subseteq Sessions
    BY <1>14, SetPasswordTyped DEF P!ChangeCommit, P!At
  <2>. QED  BY <1>14, <2>2, <2>3 DEF P!ChangeCommit
<1>15. ASSUME NEW r \in Reqs, P!RegisterAccountAuth(r) PROVE RowTypes'
  <2>1. PICK new \in Requests : P!Goes(r, new)
    BY <1>15, NewRequests, IdleRequest, RequestParts DEF P!RegisterAccountAuth, P!Ends, P!At
  <2>2. req' \in [Reqs -> Requests] /\ starts' \in Nat
    BY <2>1, GoesTyped
  <2>3. auth' \in [AccountsIds -> Rows \cup {None}]
    <3>1. P!Row(1, 0, FALSE) \in Rows
      BY DEF P!Row, Rows
    <3>. QED  BY <1>15, <3>1, RequestParts DEF P!RegisterAccountAuth, P!At
  <2>. QED  BY <1>15, <2>2, <2>3 DEF P!RegisterAccountAuth
<1>16. ASSUME NEW r \in Reqs, P!ReadRegistered(r) PROVE RowTypes'
  <2>1. PICK new \in Requests : P!Goes(r, new)
    BY <1>16, NewRequests, IdleRequest, RequestParts, RowParts DEF P!ReadRegistered, P!Ends, P!At, P!Live
  <2>2. req' \in [Reqs -> Requests] /\ starts' \in Nat
    BY <2>1, GoesTyped
  <2>. QED  BY <1>16, <2>2 DEF P!ReadRegistered
<1>17. ASSUME NEW r \in Reqs, P!SetFirstPassword(r) PROVE RowTypes'
  <2>1. PICK new \in Requests : P!Goes(r, new)
    BY <1>17, NewRequests, IdleRequest, RequestParts DEF P!SetFirstPassword, P!Ends, P!At
  <2>2. req' \in [Reqs -> Requests] /\ starts' \in Nat
    BY <2>1, GoesTyped
  <2>3. /\ auth' \in [AccountsIds -> Rows \cup {None}]
        /\ webLink' \in [AccountsIds -> Links \cup {None}]
        /\ session' \subseteq Sessions
    BY <1>17, SetPasswordTyped DEF P!SetFirstPassword, P!At
  <2>. QED  BY <1>17, <2>2, <2>3 DEF P!SetFirstPassword
<1>18. ASSUME NEW r \in Reqs, P!RetireAccountAuth(r) PROVE RowTypes'
  <2>1. PICK new \in Requests : P!Goes(r, new)
    BY <1>18, NewRequests, IdleRequest, RequestParts DEF P!RetireAccountAuth, P!Ends, P!At
  <2>2. req' \in [Reqs -> Requests] /\ starts' \in Nat
    BY <2>1, GoesTyped
  <2>3. /\ auth' \in [AccountsIds -> Rows \cup {None}]
        /\ webLink' \in [AccountsIds -> Links \cup {None}]
        /\ session' \subseteq Sessions
    BY <1>18, RequestParts, AdvancesTyped DEF P!RetireAccountAuth, P!At
  <2>. QED  BY <1>18, <2>2, <2>3 DEF P!RetireAccountAuth
<1>19. ASSUME NEW r \in Reqs, P!MintLink(r) PROVE RowTypes'
  <2>1. PICK new \in Requests : P!Goes(r, new)
    BY <1>19, NewRequests, IdleRequest, RequestParts DEF P!MintLink, P!Ends, P!At
  <2>2. req' \in [Reqs -> Requests] /\ starts' \in Nat
    BY <2>1, GoesTyped
  <2>3. webLink' \in [AccountsIds -> Links \cup {None}]
    <3>1. P!Live(req[r].id) =>
             [n |-> req[r].n, sender |-> req[r].sender, gen |-> auth[req[r].id].gen]
                \in Links
      BY <1>19, RequestParts, RowParts DEF P!MintLink, P!At, P!Live, Links
    <3>. QED  BY <1>19, <3>1, RequestParts DEF P!MintLink, P!At
  <2>. QED  BY <1>19, <2>2, <2>3 DEF P!MintLink
<1>20. ASSUME NEW r \in Reqs, P!RedeemLink(r) PROVE RowTypes'
  <2>1. PICK new \in Requests : P!Goes(r, new)
    BY <1>20, NewRequests, IdleRequest, RequestParts DEF P!RedeemLink, P!Ends, P!At
  <2>2. req' \in [Reqs -> Requests] /\ starts' \in Nat
    BY <2>1, GoesTyped
  <2>3. /\ webLink' \in [AccountsIds -> Links \cup {None}]
        /\ req[r].id \in AccountsIds /\ req[r].link \in Links
    BY <1>20, RequestParts DEF P!RedeemLink, P!At
  <2>4. session' \subseteq Sessions
    <3>1. /\ <<"link", req[r].link.n, r>> \in {"link"} \X Nat \X Reqs
          /\ req[r].link.gen \in Nat
      BY <2>3 DEF Links
    <3>. QED  BY <1>20, <2>3, <3>1, IssueTyped DEF P!RedeemLink
  <2>. QED  BY <1>20, <2>2, <2>3, <2>4 DEF P!RedeemLink
<1>21. ASSUME NEW r \in Reqs, P!LinkTelegramAccount(r) PROVE RowTypes'
  <2>1. PICK new \in Requests : P!Goes(r, new)
    BY <1>21, NewRequests, IdleRequest, RequestParts DEF P!LinkTelegramAccount, P!Ends, P!At, P!MayLink
  <2>2. req' \in [Reqs -> Requests] /\ starts' \in Nat
    BY <2>1, GoesTyped
  <2>3. member' \in [AccountsIds -> {None, 0} \cup AccountsSenders]
    BY <1>21, RequestParts DEF P!LinkTelegramAccount, P!At
  <2>. QED  BY <1>21, <2>2, <2>3 DEF P!LinkTelegramAccount
<1>22. ASSUME NEW r \in Reqs, P!FinishIdentityLink(r) PROVE RowTypes'
  <2>1. PICK new \in Requests : P!Goes(r, new)
    BY <1>22, NewRequests, IdleRequest, RequestParts DEF P!FinishIdentityLink, P!Ends, P!At
  <2>2. req' \in [Reqs -> Requests] /\ starts' \in Nat
    BY <2>1, GoesTyped
  <2>3. idLink' \in [AccountsIds -> {None, "open", "claimed"}]
    BY <1>22, RequestParts DEF P!FinishIdentityLink, P!At
  <2>. QED  BY <1>22, <2>2, <2>3 DEF P!FinishIdentityLink
<1>23. ASSUME NEW r \in Reqs, P!DeleteIdentityLinks(r) PROVE RowTypes'
  <2>1. PICK new \in Requests : P!Goes(r, new)
    BY <1>23, NewRequests, IdleRequest, RequestParts DEF P!DeleteIdentityLinks, P!Ends, P!At
  <2>2. req' \in [Reqs -> Requests] /\ starts' \in Nat
    BY <2>1, GoesTyped
  <2>3. idLink' \in [AccountsIds -> {None, "open", "claimed"}]
    BY <1>23, RequestParts DEF P!DeleteIdentityLinks, P!At
  <2>. QED  BY <1>23, <2>2, <2>3 DEF P!DeleteIdentityLinks
<1>24. ASSUME NEW r \in Reqs, P!Fails(r) PROVE RowTypes'
  <2>1. PICK new \in Requests : P!Goes(r, new)
    BY <1>24, NewRequests, IdleRequest, RequestParts DEF P!Fails, P!Ends, P!At
  <2>2. req' \in [Reqs -> Requests] /\ starts' \in Nat
    BY <2>1, GoesTyped
  <2>. QED  BY <1>24, <2>2 DEF P!Fails
<1>25. ASSUME NEW s \in session, P!Logout(s) PROVE RowTypes'
  BY <1>25 DEF P!Logout
<1>26. ASSUME NEW s \in session, P!SeeRemoved(s) PROVE RowTypes'
  BY <1>26 DEF P!SeeRemoved
<1>27. CASE P!Restart
  <2>1. auth' \in [AccountsIds -> Rows \cup {None}]
    <3>1. P!Row(1, 0, FALSE) \in Rows
      BY DEF P!Row, Rows
    <3>2. \A id \in AccountsIds : auth[id] # None =>
             P!Row(auth[id].gen + 1, 0, TRUE) \in Rows
      BY RowParts DEF P!Row, Rows
    <3>. QED  BY <1>27, <3>1, <3>2 DEF P!Restart, P!Live
  <2>2. req' \in [Reqs -> Requests] /\ starts' \in Nat
    BY <1>27, IdleRequest DEF P!Restart
  <2>. QED  BY <1>27, <2>1, <2>2 DEF P!Restart
<1>. QED
  BY <1>1, <1>2, <1>3, <1>4, <1>5, <1>6, <1>7, <1>8, <1>9, <1>10, <1>11, <1>12,
     <1>13, <1>14, <1>15, <1>16, <1>17, <1>18, <1>19, <1>20, <1>21, <1>22,
     <1>23, <1>24, <1>25, <1>26, <1>27
  DEF P!Next

(* Where no credential changes and nothing is issued, what is there is     *)
(* still of the credential as it is.                                       *)
LEMMA IssuedStays ==
  ASSUME P!IssuedIsCurrent, auth' = auth, session' \subseteq session,
         \A i \in AccountsIds : webLink'[i] \in {webLink[i], None}
  PROVE  P!IssuedIsCurrent'
  BY DEF P!IssuedIsCurrent, P!Live

(* an advance of the generation takes back what was issued,                *)
LEMMA IssuedAdvances ==
  ASSUME RowTypes, P!IssuedIsCurrent, NEW id \in AccountsIds, NEW pw, NEW retired,
         P!Advances(id, pw, retired)
  PROVE  P!IssuedIsCurrent'
  BY DEF P!IssuedIsCurrent, P!Live, P!Advances, P!RevokeIssued, RowTypes, Sessions

(* so does a new password,                                                 *)
LEMMA IssuedSetPassword ==
  ASSUME RowTypes, P!IssuedIsCurrent, NEW r \in Reqs, req[r].op # None,
         P!SetAccountPassword(r)
  PROVE  P!IssuedIsCurrent'
<1>1. req[r].id \in AccountsIds
  BY RequestParts
<1>2. CASE P!MayInsert(req[r].id, req[r].gen)
  BY <1>1, <1>2, IssuedAdvances DEF P!SetAccountPassword
<1>3. CASE ~P!MayInsert(req[r].id, req[r].gen)
  BY <1>3, IssuedStays DEF P!SetAccountPassword
<1>. QED  BY <1>2, <1>3

(* and so every step leaves what was issued current.                       *)
LEMMA IssuedKept == RowTypes /\ P!IssuedIsCurrent /\ P!Next => P!IssuedIsCurrent'
<1> SUFFICES ASSUME RowTypes /\ P!IssuedIsCurrent, P!Next PROVE P!IssuedIsCurrent'
  OBVIOUS
<1> USE AccountsAssumption
<1>1. ASSUME NEW r \in Reqs, NEW id \in AccountsIds, P!LoginVerify(r, id) PROVE
       P!IssuedIsCurrent'
  BY <1>1, IssuedStays DEF P!LoginVerify
<1>2. ASSUME NEW r \in Reqs, NEW id \in AccountsIds, P!ChangeVerify(r, id)
       PROVE P!IssuedIsCurrent'
  BY <1>2, IssuedStays DEF P!ChangeVerify
<1>3. ASSUME NEW r \in Reqs, NEW id \in AccountsIds, P!AddAccount(r, id) PROVE
       P!IssuedIsCurrent'
  BY <1>3, IssuedStays DEF P!AddAccount
<1>4. ASSUME NEW r \in Reqs, NEW id \in AccountsIds, P!RemoveAccount(r, id)
       PROVE P!IssuedIsCurrent'
  BY <1>4, IssuedStays DEF P!RemoveAccount
<1>5. ASSUME NEW r \in Reqs, NEW id \in AccountsIds, P!AskLink(r, id) PROVE
       P!IssuedIsCurrent'
  BY <1>5, IssuedStays DEF P!AskLink
<1>6. ASSUME NEW r \in Reqs, NEW id \in AccountsIds, P!ReadLink(r, id) PROVE
       P!IssuedIsCurrent'
  BY <1>6, IssuedStays DEF P!ReadLink
<1>7. ASSUME NEW r \in Reqs, NEW id \in AccountsIds, P!Unlink(r, id) PROVE
       P!IssuedIsCurrent'
  BY <1>7, IssuedStays DEF P!Unlink
<1>8. ASSUME NEW r \in Reqs, NEW id \in AccountsIds, NEW sender \in
       AccountsSenders, P!ClaimIdentityLink(r, id, sender) PROVE
       P!IssuedIsCurrent'
  BY <1>8, IssuedStays DEF P!ClaimIdentityLink
<1>9. ASSUME NEW id \in AccountsIds, P!RevokeSessions(id) PROVE
       P!IssuedIsCurrent'
  BY <1>9, IssuedAdvances DEF P!RevokeSessions
<1>10. ASSUME NEW id \in AccountsIds, P!LinkExpires(id) PROVE
       P!IssuedIsCurrent'
  BY <1>10, IssuedStays DEF P!LinkExpires, RowTypes
<1>11. ASSUME NEW id \in AccountsIds, P!CreateIdentityLink(id) PROVE
       P!IssuedIsCurrent'
  BY <1>11, IssuedStays DEF P!CreateIdentityLink
<1>12. ASSUME NEW id \in AccountsIds, P!IdentityLinkExpires(id) PROVE
       P!IssuedIsCurrent'
  BY <1>12, IssuedStays DEF P!IdentityLinkExpires
<1>13. ASSUME NEW r \in Reqs, P!LoginCommit(r) PROVE P!IssuedIsCurrent'
  <2>1. CASE session' = session
    BY <1>13, <2>1, IssuedStays DEF P!LoginCommit
  <2>2. CASE session' # session
    BY <1>13, <2>2
    DEF P!LoginCommit, P!IssuedIsCurrent, P!Live, P!Issue, P!MayInsert
  <2>. QED  BY <2>1, <2>2
<1>14. ASSUME NEW r \in Reqs, P!ChangeCommit(r) PROVE P!IssuedIsCurrent'
  <2>1. CASE P!SetAccountPassword(r)
    BY <1>14, <2>1, IssuedSetPassword DEF P!ChangeCommit, P!At
  <2>2. CASE UNCHANGED <<auth, session, webLink>>
    BY <2>2, IssuedStays
  <2>. QED  BY <1>14, <2>1, <2>2 DEF P!ChangeCommit
<1>15. ASSUME NEW r \in Reqs, P!RegisterAccountAuth(r) PROVE P!IssuedIsCurrent'
  BY <1>15
  DEF P!RegisterAccountAuth, P!IssuedIsCurrent, P!Live, RowTypes, Sessions
<1>16. ASSUME NEW r \in Reqs, P!ReadRegistered(r) PROVE P!IssuedIsCurrent'
  BY <1>16, IssuedStays DEF P!ReadRegistered
<1>17. ASSUME NEW r \in Reqs, P!SetFirstPassword(r) PROVE P!IssuedIsCurrent'
  BY <1>17, IssuedSetPassword DEF P!SetFirstPassword, P!At
<1>18. ASSUME NEW r \in Reqs, P!RetireAccountAuth(r) PROVE P!IssuedIsCurrent'
  <2>1. CASE auth[req[r].id] = None
    BY <1>18, <2>1, IssuedStays DEF P!RetireAccountAuth
  <2>2. CASE auth[req[r].id] # None
    BY <1>18, <2>2, RequestParts, IssuedAdvances DEF P!RetireAccountAuth, P!At
  <2>. QED  BY <2>1, <2>2
<1>19. ASSUME NEW r \in Reqs, P!MintLink(r) PROVE P!IssuedIsCurrent'
  <2>1. req[r].id \in AccountsIds
    BY <1>19, RequestParts DEF P!MintLink, P!At
  <2>. QED  BY <1>19, <2>1 DEF P!MintLink, P!IssuedIsCurrent, P!Live, RowTypes
<1>20. ASSUME NEW r \in Reqs, P!RedeemLink(r) PROVE P!IssuedIsCurrent'
  <2>1. req[r].id \in AccountsIds
    BY <1>20, RequestParts DEF P!RedeemLink, P!At
  <2>. QED
    BY <1>20, <2>1
    DEF P!RedeemLink, P!IssuedIsCurrent, P!Live, P!Issue, P!MayInsert, RowTypes
<1>21. ASSUME NEW r \in Reqs, P!LinkTelegramAccount(r) PROVE P!IssuedIsCurrent'
  BY <1>21, IssuedStays DEF P!LinkTelegramAccount
<1>22. ASSUME NEW r \in Reqs, P!FinishIdentityLink(r) PROVE P!IssuedIsCurrent'
  BY <1>22, IssuedStays DEF P!FinishIdentityLink
<1>23. ASSUME NEW r \in Reqs, P!DeleteIdentityLinks(r) PROVE P!IssuedIsCurrent'
  BY <1>23, IssuedStays DEF P!DeleteIdentityLinks
<1>24. ASSUME NEW r \in Reqs, P!Fails(r) PROVE P!IssuedIsCurrent'
  BY <1>24, IssuedStays DEF P!Fails
<1>25. ASSUME NEW s \in session, P!Logout(s) PROVE P!IssuedIsCurrent'
  BY <1>25, IssuedStays DEF P!Logout
<1>26. ASSUME NEW s \in session, P!SeeRemoved(s) PROVE P!IssuedIsCurrent'
  BY <1>26, IssuedStays DEF P!SeeRemoved
<1>27. CASE P!Restart
  BY <1>27 DEF P!Restart, P!IssuedIsCurrent, P!Live, P!Row, RowTypes, Sessions
<1>. QED
  BY <1>1, <1>2, <1>3, <1>4, <1>5, <1>6, <1>7, <1>8, <1>9, <1>10, <1>11, <1>12,
     <1>13, <1>14, <1>15, <1>16, <1>17, <1>18, <1>19, <1>20, <1>21, <1>22,
     <1>23, <1>24, <1>25, <1>26, <1>27
  DEF P!Next

(* Where no number is given out or used, each number is still in one place. *)
LEMMA NumbersStay ==
  ASSUME RowTypes, NumbersInv, P!LinkSignsInOnce,
         session' \subseteq session, starts' \in Nat, starts' >= starts,
         \A i \in AccountsIds : webLink'[i] \in {webLink[i], None},
         \A r \in Reqs : Mints(r)' => Mints(r) /\ req'[r].n = req[r].n
  PROVE  NumbersInv' /\ P!LinkSignsInOnce'
<1>1. /\ \A s \in session : ByLink(s) => s.by[2] \in Nat
      /\ \A i \in AccountsIds : webLink[i] # None => webLink[i].n \in Nat
      /\ \A r \in Reqs : Mints(r) => req[r].n \in Nat
  BY RowParts, RequestParts DEF RowTypes, Sessions, ByLink, Mints
<1>2. P!LinkSignsInOnce'
  BY DEF P!LinkSignsInOnce
<1>3. \A s \in session' : s \in session /\ ByLink(s)' = ByLink(s)
  BY DEF ByLink
<1>4. \A s \in session' : ByLink(s) => s.by[2] <= starts'
  BY <1>1, <1>3 DEF NumbersInv, RowTypes
<1>5. /\ \A i \in AccountsIds : webLink'[i] # None => webLink'[i].n <= starts'
      /\ \A r \in Reqs : Mints(r)' => req'[r].n <= starts'
  BY <1>1 DEF NumbersInv, RowTypes
<1>6. /\ \A i, j \in AccountsIds :
            webLink'[i] # None /\ webLink'[j] # None /\ webLink'[i].n = webLink'[j].n
            => i = j
      /\ \A r, q \in Reqs : Mints(r)' /\ Mints(q)' /\ req'[r].n = req'[q].n => r = q
      /\ \A r \in Reqs : Mints(r)' =>
            /\ \A i \in AccountsIds : webLink'[i] # None => webLink'[i].n # req'[r].n
            /\ \A s \in session' : ByLink(s) => s.by[2] # req'[r].n
  BY <1>3 DEF NumbersInv
<1>. QED  BY <1>2, <1>3, <1>4, <1>5, <1>6 DEF NumbersInv

(* A request that is no mint begins, goes on or ends. *)
LEMMA NoNewMint ==
  ASSUME RowTypes, NEW r \in Reqs, NEW new, new.op # "mint",
         P!Begins(r, new) \/ P!Goes(r, new)
  PROVE  /\ starts' \in Nat /\ starts' >= starts
         /\ \A q \in Reqs : Mints(q)' => Mints(q) /\ req'[q].n = req[q].n
  BY DEF RowTypes, P!Begins, P!Goes, Mints

(* An advance issues nothing.                                              *)
LEMMA FewerAdvances ==
  ASSUME RowTypes, NEW id \in AccountsIds, NEW pw, NEW retired,
         P!Advances(id, pw, retired)
  PROVE  /\ session' \subseteq session
         /\ \A i \in AccountsIds : webLink'[i] \in {webLink[i], None}
  BY DEF P!Advances, P!RevokeIssued, RowTypes

(* Every step keeps the numbers apart, and so a link signs in one browser. *)
LEMMA NumbersKept == RowTypes /\ NumbersInv /\ P!LinkSignsInOnce /\ P!Next => NumbersInv' /\ P!LinkSignsInOnce'
<1> SUFFICES ASSUME RowTypes /\ NumbersInv /\ P!LinkSignsInOnce, P!Next PROVE NumbersInv' /\ P!LinkSignsInOnce'
  OBVIOUS
<1> USE AccountsAssumption
<1>1. ASSUME NEW r \in Reqs, NEW id \in AccountsIds, P!LoginVerify(r, id) PROVE
       NumbersInv' /\ P!LinkSignsInOnce'
  <2>1. /\ starts' \in Nat /\ starts' >= starts
        /\ \A q \in Reqs : Mints(q)' => Mints(q) /\ req'[q].n = req[q].n
    BY <1>1, NoNewMint DEF P!LoginVerify, P!Ends, P!Idle
  <2>2. /\ session' \subseteq session
        /\ \A i \in AccountsIds : webLink'[i] \in {webLink[i], None}
    BY <1>1 DEF P!LoginVerify
  <2>. QED  BY <2>1, <2>2, NumbersStay
<1>2. ASSUME NEW r \in Reqs, NEW id \in AccountsIds, P!ChangeVerify(r, id)
       PROVE NumbersInv' /\ P!LinkSignsInOnce'
  <2>1. /\ starts' \in Nat /\ starts' >= starts
        /\ \A q \in Reqs : Mints(q)' => Mints(q) /\ req'[q].n = req[q].n
    BY <1>2, NoNewMint DEF P!ChangeVerify, P!Ends, P!Idle
  <2>2. /\ session' \subseteq session
        /\ \A i \in AccountsIds : webLink'[i] \in {webLink[i], None}
    BY <1>2 DEF P!ChangeVerify
  <2>. QED  BY <2>1, <2>2, NumbersStay
<1>3. ASSUME NEW r \in Reqs, NEW id \in AccountsIds, P!AddAccount(r, id) PROVE
       NumbersInv' /\ P!LinkSignsInOnce'
  <2>1. /\ starts' \in Nat /\ starts' >= starts
        /\ \A q \in Reqs : Mints(q)' => Mints(q) /\ req'[q].n = req[q].n
    BY <1>3, NoNewMint DEF P!AddAccount, P!Ends, P!Idle
  <2>2. /\ session' \subseteq session
        /\ \A i \in AccountsIds : webLink'[i] \in {webLink[i], None}
    BY <1>3 DEF P!AddAccount
  <2>. QED  BY <2>1, <2>2, NumbersStay
<1>4. ASSUME NEW r \in Reqs, NEW id \in AccountsIds, P!RemoveAccount(r, id)
       PROVE NumbersInv' /\ P!LinkSignsInOnce'
  <2>1. /\ starts' \in Nat /\ starts' >= starts
        /\ \A q \in Reqs : Mints(q)' => Mints(q) /\ req'[q].n = req[q].n
    BY <1>4, NoNewMint DEF P!RemoveAccount, P!Ends, P!Idle
  <2>2. /\ session' \subseteq session
        /\ \A i \in AccountsIds : webLink'[i] \in {webLink[i], None}
    BY <1>4 DEF P!RemoveAccount
  <2>. QED  BY <2>1, <2>2, NumbersStay
<1>5. ASSUME NEW r \in Reqs, NEW id \in AccountsIds, P!AskLink(r, id) PROVE
       NumbersInv' /\ P!LinkSignsInOnce'
  <2>1. /\ starts' = starts + 1 /\ starts \in Nat
        /\ req' = [req EXCEPT ![r] = [op |-> "mint", id |-> id, sender |-> member[id],
                                      n |-> starts + 1]]
        /\ UNCHANGED <<session, webLink>>
    BY <1>5 DEF P!AskLink, P!Begins, RowTypes
  <2>2. /\ req'[r].op = "mint" /\ req'[r].n = starts + 1
        /\ \A q \in Reqs : q # r => req'[q] = req[q]
    BY <2>1 DEF RowTypes
  <2>3. /\ \A s \in session : ByLink(s) => s.by[2] \in Nat
        /\ \A i \in AccountsIds : webLink[i] # None => webLink[i].n \in Nat
        /\ \A q \in Reqs : Mints(q) => req[q].n \in Nat
    BY RowParts, RequestParts DEF RowTypes, Sessions, ByLink, Mints
  <2>4. P!LinkSignsInOnce'
    BY <2>1 DEF P!LinkSignsInOnce
  <2>5. NumbersInv'
    BY <2>1, <2>2, <2>3 DEF NumbersInv, Mints, ByLink
  <2>. QED  BY <2>4, <2>5
<1>6. ASSUME NEW r \in Reqs, NEW id \in AccountsIds, P!ReadLink(r, id) PROVE
       NumbersInv' /\ P!LinkSignsInOnce'
  <2>1. /\ starts' \in Nat /\ starts' >= starts
        /\ \A q \in Reqs : Mints(q)' => Mints(q) /\ req'[q].n = req[q].n
    BY <1>6, NoNewMint DEF P!ReadLink, P!Ends, P!Idle
  <2>2. /\ session' \subseteq session
        /\ \A i \in AccountsIds : webLink'[i] \in {webLink[i], None}
    BY <1>6 DEF P!ReadLink
  <2>. QED  BY <2>1, <2>2, NumbersStay
<1>7. ASSUME NEW r \in Reqs, NEW id \in AccountsIds, P!Unlink(r, id) PROVE
       NumbersInv' /\ P!LinkSignsInOnce'
  <2>1. /\ starts' \in Nat /\ starts' >= starts
        /\ \A q \in Reqs : Mints(q)' => Mints(q) /\ req'[q].n = req[q].n
    BY <1>7, NoNewMint DEF P!Unlink, P!Ends, P!Idle
  <2>2. /\ session' \subseteq session
        /\ \A i \in AccountsIds : webLink'[i] \in {webLink[i], None}
    BY <1>7 DEF P!Unlink
  <2>. QED  BY <2>1, <2>2, NumbersStay
<1>8. ASSUME NEW r \in Reqs, NEW id \in AccountsIds, NEW sender \in
       AccountsSenders, P!ClaimIdentityLink(r, id, sender) PROVE NumbersInv' /\
       P!LinkSignsInOnce'
  <2>1. /\ starts' \in Nat /\ starts' >= starts
        /\ \A q \in Reqs : Mints(q)' => Mints(q) /\ req'[q].n = req[q].n
    BY <1>8, NoNewMint DEF P!ClaimIdentityLink, P!Ends, P!Idle
  <2>2. /\ session' \subseteq session
        /\ \A i \in AccountsIds : webLink'[i] \in {webLink[i], None}
    BY <1>8 DEF P!ClaimIdentityLink
  <2>. QED  BY <2>1, <2>2, NumbersStay
<1>9. ASSUME NEW id \in AccountsIds, P!RevokeSessions(id) PROVE NumbersInv' /\
       P!LinkSignsInOnce'
  <2>1. /\ session' \subseteq session
        /\ \A i \in AccountsIds : webLink'[i] \in {webLink[i], None}
    BY <1>9, FewerAdvances DEF P!RevokeSessions
  <2>2. starts' \in Nat /\ starts' >= starts /\ req' = req
    BY <1>9 DEF P!RevokeSessions, RowTypes
  <2>. QED  BY <2>1, <2>2, NumbersStay DEF Mints
<1>10. ASSUME NEW id \in AccountsIds, P!LinkExpires(id) PROVE NumbersInv' /\
       P!LinkSignsInOnce'
  BY <1>10, NumbersStay DEF P!LinkExpires, RowTypes, Mints
<1>11. ASSUME NEW id \in AccountsIds, P!CreateIdentityLink(id) PROVE
       NumbersInv' /\ P!LinkSignsInOnce'
  BY <1>11, NumbersStay DEF P!CreateIdentityLink, RowTypes, Mints
<1>12. ASSUME NEW id \in AccountsIds, P!IdentityLinkExpires(id) PROVE
       NumbersInv' /\ P!LinkSignsInOnce'
  BY <1>12, NumbersStay DEF P!IdentityLinkExpires, RowTypes, Mints
<1>13. ASSUME NEW r \in Reqs, P!LoginCommit(r) PROVE NumbersInv' /\
       P!LinkSignsInOnce'
  <2>1. /\ starts' \in Nat /\ starts' = starts /\ webLink' = webLink
        /\ \A q \in Reqs : Mints(q)' => Mints(q) /\ req'[q].n = req[q].n
    <3>1. P!Goes(r, P!Idle) /\ P!Idle.op # "mint"
      BY <1>13 DEF P!LoginCommit, P!Ends, P!Idle
    <3>2. starts' = starts
      BY <3>1 DEF P!Goes
    <3>. QED  BY <1>13, <3>1, <3>2, NoNewMint DEF P!LoginCommit
  <2>2. \A s \in session' : ByLink(s) => s \in session
    BY <1>13 DEF P!LoginCommit, P!Issue, ByLink
  <2>3. P!LinkSignsInOnce'
    BY <2>1, <2>2 DEF P!LinkSignsInOnce, ByLink
  <2>4. NumbersInv'
    BY <2>1, <2>2 DEF NumbersInv, ByLink
  <2>. QED  BY <2>3, <2>4
<1>14. ASSUME NEW r \in Reqs, P!ChangeCommit(r) PROVE NumbersInv' /\
       P!LinkSignsInOnce'
  <2>1. /\ starts' \in Nat /\ starts' >= starts
        /\ \A q \in Reqs : Mints(q)' => Mints(q) /\ req'[q].n = req[q].n
    BY <1>14, NoNewMint DEF P!ChangeCommit, P!Ends, P!Idle
  <2>2. /\ session' \subseteq session
        /\ \A i \in AccountsIds : webLink'[i] \in {webLink[i], None}
    <3>1. CASE P!MayInsert(req[r].id, req[r].gen) /\ P!SetAccountPassword(r)
      BY <1>14, <3>1, RequestParts, FewerAdvances
      DEF P!ChangeCommit, P!SetAccountPassword, P!At
    <3>2. CASE UNCHANGED <<auth, session, webLink>>
      BY <3>2
    <3>. QED  BY <1>14, <3>1, <3>2 DEF P!ChangeCommit, P!SetAccountPassword
  <2>. QED  BY <2>1, <2>2, NumbersStay
<1>15. ASSUME NEW r \in Reqs, P!RegisterAccountAuth(r) PROVE NumbersInv' /\
       P!LinkSignsInOnce'
  <2>1. /\ starts' \in Nat /\ starts' >= starts
        /\ \A q \in Reqs : Mints(q)' => Mints(q) /\ req'[q].n = req[q].n
    BY <1>15, NoNewMint DEF P!RegisterAccountAuth, P!Ends, P!Idle
  <2>2. /\ session' \subseteq session
        /\ \A i \in AccountsIds : webLink'[i] \in {webLink[i], None}
    BY <1>15 DEF P!RegisterAccountAuth
  <2>. QED  BY <2>1, <2>2, NumbersStay
<1>16. ASSUME NEW r \in Reqs, P!ReadRegistered(r) PROVE NumbersInv' /\
       P!LinkSignsInOnce'
  <2>1. /\ starts' \in Nat /\ starts' >= starts
        /\ \A q \in Reqs : Mints(q)' => Mints(q) /\ req'[q].n = req[q].n
    BY <1>16, NoNewMint DEF P!ReadRegistered, P!Ends, P!Idle
  <2>2. /\ session' \subseteq session
        /\ \A i \in AccountsIds : webLink'[i] \in {webLink[i], None}
    BY <1>16 DEF P!ReadRegistered
  <2>. QED  BY <2>1, <2>2, NumbersStay
<1>17. ASSUME NEW r \in Reqs, P!SetFirstPassword(r) PROVE NumbersInv' /\
       P!LinkSignsInOnce'
  <2>1. /\ starts' \in Nat /\ starts' >= starts
        /\ \A q \in Reqs : Mints(q)' => Mints(q) /\ req'[q].n = req[q].n
    BY <1>17, NoNewMint DEF P!SetFirstPassword, P!Ends, P!Idle
  <2>2. /\ session' \subseteq session
        /\ \A i \in AccountsIds : webLink'[i] \in {webLink[i], None}
    <3>1. CASE P!MayInsert(req[r].id, req[r].gen) /\ P!SetAccountPassword(r)
      BY <1>17, <3>1, RequestParts, FewerAdvances
      DEF P!SetFirstPassword, P!SetAccountPassword, P!At
    <3>2. CASE UNCHANGED <<auth, session, webLink>>
      BY <3>2
    <3>. QED  BY <1>17, <3>1, <3>2 DEF P!SetFirstPassword, P!SetAccountPassword
  <2>. QED  BY <2>1, <2>2, NumbersStay
<1>18. ASSUME NEW r \in Reqs, P!RetireAccountAuth(r) PROVE NumbersInv' /\
       P!LinkSignsInOnce'
  <2>1. /\ starts' \in Nat /\ starts' >= starts
        /\ \A q \in Reqs : Mints(q)' => Mints(q) /\ req'[q].n = req[q].n
    BY <1>18, NoNewMint DEF P!RetireAccountAuth, P!Ends, P!Idle
  <2>2. /\ session' \subseteq session
        /\ \A i \in AccountsIds : webLink'[i] \in {webLink[i], None}
    BY <1>18, RequestParts, FewerAdvances DEF P!RetireAccountAuth, P!At
  <2>. QED  BY <2>1, <2>2, NumbersStay
<1>19. ASSUME NEW r \in Reqs, P!MintLink(r) PROVE NumbersInv' /\
       P!LinkSignsInOnce'
  <2> DEFINE id == req[r].id
  <2>1. id \in AccountsIds /\ Mints(r) /\ req[r].n \in Nat
    BY <1>19, RequestParts DEF P!MintLink, P!At, Mints
  <2>2. /\ session' = session /\ starts' = starts
        /\ ~Mints(r)' /\ \A q \in Reqs : q # r => req'[q] = req[q]
    BY <1>19 DEF P!MintLink, P!Ends, P!Goes, P!Idle, Mints, RowTypes
  <2>3. /\ \A i \in AccountsIds : i # id => webLink'[i] = webLink[i]
        /\ webLink'[id] = webLink[id] \/ webLink'[id].n = req[r].n
    BY <1>19, <2>1 DEF P!MintLink, RowTypes
  <2>4. P!LinkSignsInOnce'
    BY <2>1, <2>2, <2>3 DEF P!LinkSignsInOnce, NumbersInv, ByLink
  <2>5. NumbersInv'
    BY <2>1, <2>2, <2>3 DEF NumbersInv, Mints, ByLink
  <2>. QED  BY <2>4, <2>5
<1>20. ASSUME NEW r \in Reqs, P!RedeemLink(r) PROVE NumbersInv' /\
       P!LinkSignsInOnce'
  <2> DEFINE id == req[r].id
             n == req[r].link.n
             new == [id |-> id, gen |-> req[r].link.gen, by |-> <<"link", n, r>>]
  <2>0. /\ starts' \in Nat /\ starts' = starts
        /\ \A q \in Reqs : Mints(q)' => Mints(q) /\ req'[q].n = req[q].n
    <3>1. P!Goes(r, P!Idle) /\ P!Idle.op # "mint"
      BY <1>20 DEF P!RedeemLink, P!Ends, P!Idle
    <3>2. starts' = starts
      BY <3>1 DEF P!Goes
    <3>. QED  BY <1>20, <3>1, <3>2, NoNewMint DEF P!RedeemLink
  <2>1. CASE UNCHANGED <<webLink, session>>
    BY <2>0, <2>1, NumbersStay DEF RowTypes
  <2>2. CASE ~UNCHANGED <<webLink, session>>
    <3>1. id \in AccountsIds /\ req[r].link \in Links
      BY <1>20, RequestParts DEF P!RedeemLink, P!At
    <3>2. /\ webLink[id] = req[r].link
          /\ webLink' = [webLink EXCEPT ![id] = None]
          /\ session' = session \cup {new}
      BY <1>20, <2>2 DEF P!RedeemLink, P!Issue, P!StillThere
    <3>3. webLink[id] # None /\ webLink[id].n = n /\ n \in Nat
      BY <3>1, <3>2 DEF Links
    <3>4. /\ webLink'[id] = None
          /\ \A i \in AccountsIds : i # id => webLink'[i] = webLink[i]
      BY <3>1, <3>2 DEF RowTypes
    <3>5. new.by[1] = "link" /\ new.by[2] = n
      OBVIOUS
    <3> HIDE DEF id, n, new
    <3>6. \A s \in session : ByLink(s) => s.by[2] # n
      BY <3>1, <3>3 DEF P!LinkSignsInOnce, ByLink
    <3>7. P!LinkSignsInOnce'
      <4>1. \A s \in session', t \in session' :
              s.by[1] = "link" /\ t.by[1] = "link" /\ t.by[2] = s.by[2] => t = s
        BY <3>2, <3>5, <3>6 DEF P!LinkSignsInOnce, ByLink
      <4>2. \A s \in session', i \in AccountsIds :
              s.by[1] = "link" /\ webLink'[i] # None => webLink'[i].n # s.by[2]
        BY <3>1, <3>2, <3>3, <3>4, <3>5 DEF P!LinkSignsInOnce, NumbersInv
      <4>. QED  BY <4>1, <4>2 DEF P!LinkSignsInOnce
    <3>8. NumbersInv'
      <4>1. \A s \in session' : ByLink(s) => s.by[2] <= starts
        BY <3>1, <3>2, <3>3, <3>5 DEF NumbersInv, ByLink
      <4>2. \A q \in Reqs, s \in session' : Mints(q) /\ ByLink(s) => s.by[2] # req[q].n
        BY <3>1, <3>2, <3>3, <3>5 DEF NumbersInv, ByLink
      <4>3. /\ \A i \in AccountsIds : webLink'[i] # None => webLink'[i].n <= starts'
            /\ \A i, j \in AccountsIds :
                 webLink'[i] # None /\ webLink'[j] # None
                 /\ webLink'[i].n = webLink'[j].n => i = j
            /\ \A q \in Reqs, i \in AccountsIds :
                 Mints(q)' /\ webLink'[i] # None => webLink'[i].n # req'[q].n
        BY <2>0, <3>4 DEF NumbersInv
      <4>4. /\ \A q \in Reqs : Mints(q)' => req'[q].n <= starts'
            /\ \A q, p \in Reqs : Mints(q)' /\ Mints(p)' /\ req'[q].n = req'[p].n => q = p
        BY <2>0 DEF NumbersInv
      <4>5. \A s : ByLink(s)' = ByLink(s)
        BY DEF ByLink
      <4>. QED  BY <2>0, <4>1, <4>2, <4>3, <4>4, <4>5 DEF NumbersInv
    <3>. QED  BY <3>7, <3>8
  <2>. QED  BY <2>1, <2>2
<1>21. ASSUME NEW r \in Reqs, P!LinkTelegramAccount(r) PROVE NumbersInv' /\
       P!LinkSignsInOnce'
  <2>1. /\ starts' \in Nat /\ starts' >= starts
        /\ \A q \in Reqs : Mints(q)' => Mints(q) /\ req'[q].n = req[q].n
    BY <1>21, NoNewMint DEF P!LinkTelegramAccount, P!Ends, P!Idle
  <2>2. /\ session' \subseteq session
        /\ \A i \in AccountsIds : webLink'[i] \in {webLink[i], None}
    BY <1>21 DEF P!LinkTelegramAccount
  <2>. QED  BY <2>1, <2>2, NumbersStay
<1>22. ASSUME NEW r \in Reqs, P!FinishIdentityLink(r) PROVE NumbersInv' /\
       P!LinkSignsInOnce'
  <2>1. /\ starts' \in Nat /\ starts' >= starts
        /\ \A q \in Reqs : Mints(q)' => Mints(q) /\ req'[q].n = req[q].n
    BY <1>22, NoNewMint DEF P!FinishIdentityLink, P!Ends, P!Idle
  <2>2. /\ session' \subseteq session
        /\ \A i \in AccountsIds : webLink'[i] \in {webLink[i], None}
    BY <1>22 DEF P!FinishIdentityLink
  <2>. QED  BY <2>1, <2>2, NumbersStay
<1>23. ASSUME NEW r \in Reqs, P!DeleteIdentityLinks(r) PROVE NumbersInv' /\
       P!LinkSignsInOnce'
  <2>1. /\ starts' \in Nat /\ starts' >= starts
        /\ \A q \in Reqs : Mints(q)' => Mints(q) /\ req'[q].n = req[q].n
    BY <1>23, NoNewMint DEF P!DeleteIdentityLinks, P!Ends, P!Idle
  <2>2. /\ session' \subseteq session
        /\ \A i \in AccountsIds : webLink'[i] \in {webLink[i], None}
    BY <1>23 DEF P!DeleteIdentityLinks
  <2>. QED  BY <2>1, <2>2, NumbersStay
<1>24. ASSUME NEW r \in Reqs, P!Fails(r) PROVE NumbersInv' /\
       P!LinkSignsInOnce'
  <2>1. /\ starts' \in Nat /\ starts' >= starts
        /\ \A q \in Reqs : Mints(q)' => Mints(q) /\ req'[q].n = req[q].n
    BY <1>24, NoNewMint DEF P!Fails, P!Ends, P!Idle
  <2>2. /\ session' \subseteq session
        /\ \A i \in AccountsIds : webLink'[i] \in {webLink[i], None}
    BY <1>24 DEF P!Fails
  <2>. QED  BY <2>1, <2>2, NumbersStay
<1>25. ASSUME NEW s \in session, P!Logout(s) PROVE NumbersInv' /\
       P!LinkSignsInOnce'
  BY <1>25, NumbersStay DEF P!Logout, RowTypes, Mints
<1>26. ASSUME NEW s \in session, P!SeeRemoved(s) PROVE NumbersInv' /\
       P!LinkSignsInOnce'
  BY <1>26, NumbersStay DEF P!SeeRemoved, RowTypes, Mints
<1>27. CASE P!Restart
  <2>1. \A r \in Reqs : ~Mints(r)'
    BY <1>27 DEF P!Restart, P!Idle, Mints
  <2>2. /\ session' \subseteq session /\ starts' \in Nat /\ starts' >= starts
        /\ \A i \in AccountsIds : webLink'[i] \in {webLink[i], None}
    BY <1>27 DEF P!Restart, RowTypes
  <2>. QED  BY <2>1, <2>2, NumbersStay
<1>. QED
  BY <1>1, <1>2, <1>3, <1>4, <1>5, <1>6, <1>7, <1>8, <1>9, <1>10, <1>11, <1>12,
     <1>13, <1>14, <1>15, <1>16, <1>17, <1>18, <1>19, <1>20, <1>21, <1>22,
     <1>23, <1>24, <1>25, <1>26, <1>27
  DEF P!Next

(* The accounts as they are at first.                                      *)
LEMMA AccountsInit == P!Init => AccountsInv
<1> SUFFICES ASSUME P!Init PROVE AccountsInv
  OBVIOUS
<1>1. RowTypes
  <2>1. P!Row(1, 0, FALSE) \in Rows
    BY DEF P!Row, Rows
  <2>2. auth \in [AccountsIds -> Rows \cup {None}]
    BY <2>1 DEF P!Init
  <2>3. req \in [Reqs -> Requests]
    BY IdleRequest DEF P!Init
  <2>. QED  BY <2>2, <2>3 DEF P!Init, RowTypes
<1>2. P!IssuedIsCurrent /\ P!LinkSignsInOnce
  BY DEF P!Init, P!IssuedIsCurrent, P!LinkSignsInOnce
<1>3. NumbersInv
  BY AccountsAssumption DEF P!Init, NumbersInv, Mints, P!Idle
<1>. QED  BY <1>1, <1>2, <1>3 DEF AccountsInv

(* Nothing of them changes while none of their variables does.             *)
LEMMA AccountsStays == AccountsInv /\ UNCHANGED accountsVars => AccountsInv'
  BY DEF accountsVars, AccountsInv, RowTypes, NumbersInv, Mints, ByLink,
         P!IssuedIsCurrent, P!LinkSignsInOnce, P!Live

(* So every step keeps the invariant.                                      *)
LEMMA AccountsKept == AccountsInv /\ P!Next => AccountsInv'
  BY RowTypesKept, IssuedKept, NumbersKept DEF AccountsInv

-----------------------------------------------------------------------------
(* The ledger                                                              *)

(* A row of the ledger, what was stated for one, and a page that is read   *)
(* up to a point.                                                          *)
LedgerRows ==
    [kind : Kinds, day : M!Days, currency : M!Currencies,
     amount : Nat \ {0}, category : Categories]
Statements == [text : {1, 2}, currency : M!Currencies]
PageIs(at) ==
    \E average, days, trend :
        page = [at |-> at, average |-> average, days |-> days, trend |-> trend]

(* Types of the ledger, with the values that the writes need.              *)
FinanceTypes ==
    /\ ledger \in [Entries -> LedgerRows \cup {None}]
    /\ stated \in [Entries -> Statements \cup {None}]
    /\ given \subseteq Entries
    /\ colors \in [Categories -> Colors \cup {None}]
    /\ \E at \in {"none", "days", "months", "read"} : PageIs(at)

(* The inductive invariant of the ledger.                                  *)
FinanceInv ==
    /\ FinanceTypes
    /\ M!There \subseteq given
    /\ M!AmountIsAsStated
    /\ M!ErrorMeansNothing

(* The count of minor units of an amount.                                  *)
LEMMA Parsed ==
  ASSUME NEW digits \in {1, 2}, NEW currency \in M!Currencies
  PROVE  M!ParseAmount(digits, currency) \in Nat \ {0}
<1>1. CASE currency = "SGD"
  <2>1. M!Exponent[currency] = 1
    BY <1>1 DEF M!Exponent
  <2>2. 10 ^ 1 = 10
    OBVIOUS
  <2>. QED  BY <2>1, <2>2 DEF M!ParseAmount
<1>2. CASE currency = "JPY"
  <2>1. M!Exponent[currency] = 0
    BY <1>2 DEF M!Exponent
  <2>2. 10 ^ 0 = 1
    OBVIOUS
  <2>. QED  BY <2>1, <2>2 DEF M!ParseAmount
<1>. QED  BY <1>1, <1>2 DEF M!Currencies

(* The ledger as it is at first.                                           *)
LEMMA FinanceInit == M!Init => FinanceInv
<1> SUFFICES ASSUME M!Init PROVE FinanceInv
  OBVIOUS
<1>1. /\ ledger \in [Entries -> LedgerRows \cup {None}]
      /\ stated \in [Entries -> Statements \cup {None}]
      /\ given \subseteq Entries
      /\ colors \in [Categories -> Colors \cup {None}]
  BY DEF M!Init
<1>2. PageIs("none")
  BY DEF M!Init, M!Unread, PageIs
<1>3. \A e \in Entries : ledger[e] = None
  BY DEF M!Init
<1>4. M!There = {}
  BY <1>3 DEF M!There
<1>5. M!ErrorMeansNothing
  BY DEF M!Init, M!ErrorMeansNothing
<1>. QED  BY <1>1, <1>2, <1>3, <1>4, <1>5
          DEF FinanceInv, FinanceTypes, M!AmountIsAsStated

(* Nothing of the ledger changes while none of its variables does.         *)
LEMMA FinanceStays == FinanceInv /\ UNCHANGED financeVars => FinanceInv'
  BY DEF financeVars, FinanceInv, FinanceTypes, PageIs, M!There,
         M!AmountIsAsStated, M!ErrorMeansNothing

(* The part of it that the writes of the service are about.                *)
LedgerInv ==
    /\ ledger \in [Entries -> LedgerRows \cup {None}]
    /\ stated \in [Entries -> Statements \cup {None}]
    /\ given \subseteq Entries
    /\ colors \in [Categories -> Colors \cup {None}]
    /\ M!There \subseteq given
    /\ M!AmountIsAsStated

(* An entry that is logged counts what was stated for it.                  *)
LEMMA LogKept == ASSUME LedgerInv, NEW e \in Entries, M!Log(e) PROVE LedgerInv'
<1>1. PICK kind \in Kinds, day \in M!Days, currency \in M!Currencies,
           digits \in {1, 2}, c \in Categories :
         /\ ledger' = [ledger EXCEPT ![e] =
              [kind |-> kind, day |-> day, currency |-> currency,
               amount |-> M!ParseAmount(digits, currency), category |-> c]]
         /\ stated' = [stated EXCEPT ![e] =
              [text |-> digits, currency |-> currency]]
  BY DEF M!Log
<1> DEFINE row == [kind |-> kind, day |-> day, currency |-> currency,
                   amount |-> M!ParseAmount(digits, currency), category |-> c]
           st == [text |-> digits, currency |-> currency]
<1>2. /\ row \in LedgerRows /\ st \in Statements
      /\ row.currency = st.currency
      /\ row.amount = M!ParseAmount(st.text, st.currency)
  BY Parsed DEF LedgerRows, Statements
<1>3. ledger' = [ledger EXCEPT ![e] = row] /\ stated' = [stated EXCEPT ![e] = st]
  BY <1>1
<1>4. given' = given \cup {e} /\ colors' = colors
  BY DEF M!Log
<1> HIDE DEF row, st
<1>5. /\ ledger' \in [Entries -> LedgerRows \cup {None}]
      /\ stated' \in [Entries -> Statements \cup {None}]
      /\ given' \subseteq Entries /\ colors' \in [Categories -> Colors \cup {None}]
  BY <1>2, <1>3, <1>4 DEF LedgerInv
<1>6. \A f \in Entries \ {e} : ledger'[f] = ledger[f] /\ stated'[f] = stated[f]
  BY <1>3 DEF LedgerInv
<1>7. ledger'[e] = row /\ stated'[e] = st
  BY <1>3 DEF LedgerInv
<1>8. M!There' \subseteq given'
  BY <1>4, <1>6 DEF LedgerInv, M!There
<1>9. M!AmountIsAsStated'
  BY <1>2, <1>6, <1>7 DEF LedgerInv, M!There, M!AmountIsAsStated
<1>. QED  BY <1>5, <1>6, <1>7, <1>8, <1>9 DEF LedgerInv

(* A patch leaves the amount as it was stated, or states it anew.          *)
LEMMA UpdateKept ==
  ASSUME LedgerInv, NEW e \in Entries, M!Update(e) PROVE LedgerInv'
<1>0. /\ e \in M!There /\ ledger[e] \in LedgerRows
      /\ stated[e].currency = ledger[e].currency
      /\ ledger[e].amount = M!ParseAmount(stated[e].text, stated[e].currency)
      /\ given' = given /\ colors' = colors
  BY DEF M!Update, LedgerInv, M!There, M!AmountIsAsStated
<1>1. PICK currency \in M!Currencies \cup {None}, said \in 0 .. 2,
           day \in {0} \cup M!Days, kind \in Kinds \cup {None} :
         LET row == ledger[e]
             code == IF currency = None THEN row.currency ELSE currency IN
         /\ M!Restated(e, code, said)
         /\ ledger' = [ledger EXCEPT ![e] =
              [row EXCEPT !.currency = code,
                        !.amount = IF said = 0 THEN @
                                   ELSE M!ParseAmount(said, code),
                        !.day = IF day = 0 THEN @ ELSE day,
                        !.kind = IF kind = None THEN @ ELSE kind]]
         /\ stated' = IF said = 0 THEN stated
                      ELSE [stated EXCEPT ![e] =
                              [text |-> said, currency |-> code]]
  BY DEF M!Update
<1> DEFINE code == IF currency = None THEN ledger[e].currency ELSE currency
           amount == IF said = 0 THEN ledger[e].amount
                     ELSE M!ParseAmount(said, code)
           r0 == ledger[e]
           r1 == [r0 EXCEPT !.currency = code]
           r2 == [r1 EXCEPT !.amount = IF said = 0 THEN r1.amount
                                       ELSE M!ParseAmount(said, code)]
           r3 == [r2 EXCEPT !.day = IF day = 0 THEN r2.day ELSE day]
           r4 == [r3 EXCEPT !.kind = IF kind = None THEN r3.kind ELSE kind]
           st == [text |-> said, currency |-> code]
<1>2. code \in M!Currencies /\ (said = 0 => code = ledger[e].currency)
  BY <1>0, <1>1 DEF M!Restated, LedgerRows
<1>3. amount \in Nat \ {0}
  BY <1>0, <1>2, Parsed DEF LedgerRows
<1>4. said # 0 => st \in Statements /\ amount = M!ParseAmount(st.text, st.currency)
  BY <1>2 DEF Statements
<1>5. st.currency = code
  OBVIOUS
<1>6. stated' = IF said = 0 THEN stated ELSE [stated EXCEPT ![e] = st]
  BY <1>1
<1>7. ledger' = [ledger EXCEPT ![e] =
         [r0 EXCEPT !.currency = code,
                    !.amount = IF said = 0 THEN @ ELSE M!ParseAmount(said, code),
                    !.day = IF day = 0 THEN @ ELSE day,
                    !.kind = IF kind = None THEN @ ELSE kind]]
  BY <1>1
<1>8. ledger' = [ledger EXCEPT ![e] = r4]
  BY <1>7
<1>9. r0 \in LedgerRows
  BY <1>0
<1>a. said = 0 => amount = ledger[e].amount
  OBVIOUS
<1>b. said # 0 => amount = M!ParseAmount(said, code)
  OBVIOUS
<1>c. r0.amount = ledger[e].amount
  OBVIOUS
<1> HIDE DEF code, amount, st, r0
<1>10. r1 \in LedgerRows /\ r1.currency = code /\ r1.amount = r0.amount
  BY <1>2, <1>9 DEF LedgerRows
<1> HIDE DEF r1
<1>11. r2 \in LedgerRows /\ r2.currency = code /\ r2.amount = amount
  <2>1. amount = IF said = 0 THEN r1.amount ELSE M!ParseAmount(said, code)
    BY <1>10, <1>a, <1>b, <1>c
  <2>. QED  BY <1>3, <1>10, <2>1 DEF LedgerRows
<1> HIDE DEF r2
<1>12. r3 \in LedgerRows /\ r3.currency = code /\ r3.amount = amount
  <2>1. r2.day \in M!Days
    BY <1>11 DEF LedgerRows
  <2>. QED  BY <1>11, <2>1 DEF LedgerRows
<1> HIDE DEF r3
<1>13. r4 \in LedgerRows /\ r4.currency = code /\ r4.amount = amount
  <2>1. r3.kind \in Kinds
    BY <1>12 DEF LedgerRows
  <2>. QED  BY <1>12, <2>1 DEF LedgerRows
<1> HIDE DEF r4
<1>14. /\ ledger' \in [Entries -> LedgerRows \cup {None}]
       /\ stated' \in [Entries -> Statements \cup {None}]
  BY <1>4, <1>6, <1>8, <1>13 DEF LedgerInv
<1>15. \A f \in Entries \ {e} : ledger'[f] = ledger[f] /\ stated'[f] = stated[f]
  BY <1>6, <1>8 DEF LedgerInv
<1>16. ledger'[e] = r4 /\ (said = 0 => stated'[e] = stated[e])
       /\ (said # 0 => stated'[e] = st)
  BY <1>6, <1>8 DEF LedgerInv
<1>17. M!There' \subseteq given'
  BY <1>0, <1>15 DEF LedgerInv, M!There
<1>18. /\ stated'[e].currency = ledger'[e].currency
       /\ ledger'[e].amount = M!ParseAmount(stated'[e].text, stated'[e].currency)
  <2>1. CASE said = 0
    BY <1>0, <1>2, <1>13, <1>16, <1>a, <2>1
  <2>2. CASE said # 0
    BY <1>4, <1>5, <1>13, <1>16, <2>2
  <2>. QED  BY <2>1, <2>2
<1>19. M!AmountIsAsStated'
  BY <1>15, <1>18 DEF LedgerInv, M!There, M!AmountIsAsStated
<1>. QED  BY <1>0, <1>14, <1>17, <1>19 DEF LedgerInv

(* An entry that is deleted is no longer stated.                           *)
LEMMA DeleteKept ==
  ASSUME LedgerInv, NEW e \in Entries, M!Delete(e) PROVE LedgerInv'
<1>1. /\ ledger' = [ledger EXCEPT ![e] = None]
      /\ stated' = [stated EXCEPT ![e] = None]
      /\ given' = given /\ colors' = colors
  BY DEF M!Delete
<1>2. /\ ledger' \in [Entries -> LedgerRows \cup {None}]
      /\ stated' \in [Entries -> Statements \cup {None}]
      /\ \A f \in Entries \ {e} : ledger'[f] = ledger[f] /\ stated'[f] = stated[f]
      /\ ledger'[e] = None
  BY <1>1 DEF LedgerInv
<1>. QED  BY <1>1, <1>2 DEF LedgerInv, M!There, M!AmountIsAsStated

(* A category that is renamed leaves the amounts alone.                    *)
LEMMA RenameKept == ASSUME LedgerInv, M!RenameCategory PROVE LedgerInv'
<1>1. PICK old \in Categories, to \in Categories :
         /\ ledger' = [e \in Entries |->
              IF ledger[e] # None /\ ledger[e].category = old
              THEN [ledger[e] EXCEPT !.category = to] ELSE ledger[e]]
         /\ colors' = [colors EXCEPT ![old] = None,
                           ![to] = IF @ = None THEN colors[old] ELSE @]
  BY DEF M!RenameCategory
<1>2. stated' = stated /\ given' = given
  BY DEF M!RenameCategory
<1>3. colors' \in [Categories -> Colors \cup {None}]
  <2> DEFINE c1 == [colors EXCEPT ![old] = None]
             c2 == [c1 EXCEPT ![to] = IF c1[to] = None THEN colors[old]
                                      ELSE c1[to]]
  <2>1. c1 \in [Categories -> Colors \cup {None}]
    BY DEF LedgerInv
  <2>2. colors' = c2
    BY <1>1 DEF LedgerInv
  <2> HIDE DEF c1
  <2>. QED  BY <2>1, <2>2 DEF LedgerInv
<1>4. ASSUME NEW e \in Entries
      PROVE  \/ ledger'[e] = ledger[e]
             \/ /\ ledger[e] # None /\ ledger'[e] \in LedgerRows
                /\ ledger'[e].currency = ledger[e].currency
                /\ ledger'[e].amount = ledger[e].amount
  BY <1>1 DEF LedgerInv, LedgerRows
<1>5. ledger' \in [Entries -> LedgerRows \cup {None}]
  <2> DEFINE f(e) == IF ledger[e] # None /\ ledger[e].category = old
                     THEN [ledger[e] EXCEPT !.category = to] ELSE ledger[e]
  <2>1. ledger' = [e \in Entries |-> f(e)]
    BY <1>1
  <2>2. \A e \in Entries : f(e) \in LedgerRows \cup {None}
    BY <1>4, <2>1 DEF LedgerInv
  <2> HIDE DEF f
  <2>. QED  BY <2>1, <2>2
<1>6. M!There' \subseteq given' /\ M!AmountIsAsStated'
  BY <1>2, <1>4 DEF LedgerInv, M!There, M!AmountIsAsStated
<1>. QED  BY <1>2, <1>3, <1>5, <1>6 DEF LedgerInv

(* A write of the service, whoever calls it.                               *)
LEMMA WritesKept ==
  ASSUME LedgerInv, NEW e \in Entries, M!Log(e) \/ M!Update(e) \/ M!Delete(e)
  PROVE  LedgerInv'
  BY LogKept, UpdateKept, DeleteKept

(* The invariant is that of the writes, that of the answers and that of    *)
(* the page.                                                               *)
LEMMA LedgerParts ==
  FinanceInv <=> /\ LedgerInv /\ M!ErrorMeansNothing
                 /\ \E at \in {"none", "days", "months", "read"} : PageIs(at)
  BY DEF FinanceInv, FinanceTypes, LedgerInv

(* Every write of the panel and of the tool, every answer and every read   *)
(* of a page keep it.                                                      *)
LEMMA FinanceKept == FinanceInv /\ M!Next => FinanceInv'
<1> SUFFICES ASSUME FinanceInv, M!Next PROVE FinanceInv'
  OBVIOUS
<1>0. /\ LedgerInv /\ M!ErrorMeansNothing
      /\ \E at \in {"none", "days", "months", "read"} : PageIs(at)
  BY LedgerParts
<1>00. ASSUME LedgerInv', M!ErrorMeansNothing',
              \E at \in {"none", "days", "months", "read"} : PageIs(at)'
       PROVE  FinanceInv'
  BY <1>00 DEF FinanceInv, FinanceTypes, LedgerInv
<1>1. ASSUME ledger' = ledger, given' = given, stated' = stated,
             colors' = colors
      PROVE  LedgerInv'
  BY <1>0, <1>1 DEF LedgerInv, M!There, M!AmountIsAsStated
<1>2. ASSUME answer' = answer PROVE M!ErrorMeansNothing'
  BY <1>0, <1>2 DEF M!ErrorMeansNothing
<1>3. ASSUME page' = page
      PROVE  \E at \in {"none", "days", "months", "read"} : PageIs(at)'
  BY <1>0, <1>3 DEF PageIs
<1>4. CASE M!PanelWrites
  BY <1>0, <1>2, <1>3, <1>4, WritesKept, <1>00 DEF M!PanelWrites
<1>5. CASE M!RenameCategory
  BY <1>0, <1>2, <1>3, <1>5, RenameKept, <1>00 DEF M!RenameCategory
<1>6. CASE M!SetCategoryColor
  <2>1. ledger' = ledger /\ given' = given /\ stated' = stated
    BY <1>6 DEF M!SetCategoryColor
  <2>2. colors' \in [Categories -> Colors \cup {None}]
    BY <1>0, <1>6 DEF M!SetCategoryColor, LedgerInv
  <2>3. LedgerInv'
    BY <1>0, <2>1, <2>2 DEF LedgerInv, M!There, M!AmountIsAsStated
  <2>. QED  BY <1>2, <1>3, <1>6, <2>3, <1>00 DEF M!SetCategoryColor
<1>7. CASE M!Call
  <2>1. M!ErrorMeansNothing'
    BY <1>7 DEF M!Call, M!ErrorMeansNothing
  <2>. QED  BY <1>1, <1>3, <1>7, <2>1, <1>00 DEF M!Call
<1>8. CASE M!Item
  <2>1. LedgerInv'
    BY <1>0, <1>1, <1>8, WritesKept DEF M!Item, M!Refuse
  <2>. QED  BY <1>2, <1>3, <1>8, <2>1, <1>00 DEF M!Item
<1>9. CASE M!Answer
  <2>1. answer' = [error |-> call.wrote = 0, wrote |-> call.wrote]
    BY <1>9 DEF M!Answer, M!Failed
  <2>2. M!ErrorMeansNothing'
    BY <2>1, Zenon DEF M!ErrorMeansNothing
  <2>. QED  BY <1>1, <1>3, <1>9, <2>2, <1>00 DEF M!Answer
<1>10. ASSUME M!Still, \E at \in {"none", "days", "months", "read"} : PageIs(at)'
       PROVE  FinanceInv'
  BY <1>1, <1>2, <1>10, <1>00 DEF M!Still
<1>12. CASE M!ReadByCategory
  <2> DEFINE a == [c \in M!Currencies |-> M!Outflow(c)]
  <2>1. PICK average, days, trend :
          page = [at |-> "none", average |-> average, days |-> days,
                  trend |-> trend]
    BY <1>0, <1>12 DEF M!ReadByCategory, PageIs
  <2>2. page' = [page EXCEPT !.at = "days", !.average = a]
    BY <1>12, <2>1 DEF M!ReadByCategory
  <2> HIDE DEF a
  <2>3. page' = [at |-> "days", average |-> a, days |-> days,
                   trend |-> trend]
    BY <2>1, <2>2
  <2>4. PageIs("days")'
    BY <2>3 DEF PageIs
  <2>. QED  BY <1>10, <1>12, <2>4 DEF M!ReadByCategory
<1>13. CASE M!ReadByDay
  <2> DEFINE d == [c \in M!Currencies |-> [day \in M!Days |->
                     M!Of({"expense"}, c, {day})]]
  <2>1. PICK average, days, trend :
          page = [at |-> "days", average |-> average, days |-> days,
                  trend |-> trend]
    BY <1>0, <1>13 DEF M!ReadByDay, PageIs
  <2>2. page' = [page EXCEPT !.at = "months", !.days = d]
    BY <1>13, <2>1 DEF M!ReadByDay
  <2> HIDE DEF d
  <2>3. page' = [at |-> "months", average |-> average, days |-> d,
                   trend |-> trend]
    BY <2>1, <2>2
  <2>4. PageIs("months")'
    BY <2>3 DEF PageIs
  <2>. QED  BY <1>10, <1>13, <2>4 DEF M!ReadByDay
<1>14. CASE M!ReadByMonth
  <2> DEFINE t == [c \in M!Currencies |-> <<M!Inflow(c), M!Outflow(c)>>]
             p1 == [page EXCEPT !.at = "read"]
             p2 == [p1 EXCEPT !.trend = t]
             a == [c \in M!Currencies |-> p2.average[c] \div today]
  <2>1. PICK average, days, trend :
          page = [at |-> "months", average |-> average, days |-> days,
                  trend |-> trend]
    BY <1>0, <1>14 DEF M!ReadByMonth, PageIs
  <2>2. page' = [page EXCEPT !.at = "read", !.trend = t, !.average = a]
    BY <1>14, <2>1 DEF M!ReadByMonth
  <2> HIDE DEF a, t
  <2>3. page' = [at |-> "read", average |-> a, days |-> days,
                   trend |-> t]
    BY <2>1, <2>2
  <2>4. PageIs("read")'
    BY <2>3 DEF PageIs
  <2>. QED  BY <1>10, <1>14, <2>4 DEF M!ReadByMonth
<1>15. CASE M!Leave
  <2>1. PageIs("none")'
    BY <1>15 DEF M!Leave, M!Unread, PageIs
  <2>. QED  BY <1>10, <1>15, <2>1 DEF M!Leave
<1>16. CASE M!DayPasses
  BY <1>1, <1>2, <1>3, <1>16, <1>00 DEF M!DayPasses
<1>. QED
  BY <1>4, <1>5, <1>6, <1>7, <1>8, <1>9, <1>12, <1>13, <1>14, <1>15, <1>16
  DEF M!Next

(* What the invariant says of types.                                       *)
LEMMA FinanceTyped == FinanceInv => M!TypeOK
<1> SUFFICES ASSUME FinanceInv PROVE M!TypeOK
  OBVIOUS
<1>1. \A e \in M!There : ledger[e] \in LedgerRows
  BY DEF FinanceInv, FinanceTypes, M!There
<1>2. page.at \in {"none", "days", "months", "read"}
  BY DEF FinanceInv, FinanceTypes, PageIs
<1>. QED
  BY <1>1, <1>2 DEF FinanceInv, FinanceTypes, LedgerRows, M!TypeOK

(* The counts of a page, as far as it was read: whatever was written       *)
(* between the reads, they are numbers.                                    *)
PageInv ==
    /\ today \in M!Days /\ IsFiniteSet(given)
    /\ page.at # "none" => \A c \in M!Currencies : page.average[c] \in Nat
    /\ page.at \in {"months", "read"} =>
          \A c \in M!Currencies, d \in M!Days : page.days[c][d] \in Nat
    /\ page.at = "read" =>
          \A c \in M!Currencies : page.trend[c][1] \in Nat /\ page.trend[c][2] \in Nat

(* The amounts of any selection of the entries add up to a number.         *)
LEMMA AddsUp ==
  ASSUME FinanceInv, IsFiniteSet(given), NEW kinds, NEW currency, NEW days
  PROVE  M!Of(kinds, currency, days) \in Nat
<1>. DEFINE S == {e \in M!There : /\ ledger[e].currency = currency
                                  /\ ledger[e].kind \in kinds /\ ledger[e].day \in days}
            q == [e \in S |-> ledger[e].amount]
<1>1. IsFiniteSet(S)
  BY FS_Subset DEF FinanceInv
<1>2. \A e \in S : ledger[e].amount \in Nat /\ q[e] = ledger[e].amount
  BY DEF FinanceInv, FinanceTypes, M!There, LedgerRows
<1>3. PICK k \in [SUBSET S -> Nat] : SumsTo(k, q, S)
  <2>. HIDE DEF S, q
  <2>. QED  BY <1>1, <1>2, SumExists
<1>4. \A u \in SUBSET S :
        k[u] = IF u = {} THEN 0
               ELSE ledger[CHOOSE x \in u : TRUE].amount + k[u \ {CHOOSE x \in u : TRUE}]
  <2> SUFFICES ASSUME NEW u \in SUBSET S, u # {}
               PROVE  k[u] = ledger[CHOOSE x \in u : TRUE].amount
                               + k[u \ {CHOOSE x \in u : TRUE}]
    BY <1>3 DEF SumsTo
  <2>1. (CHOOSE x \in u : TRUE) \in S
    OBVIOUS
  <2>2. k[u] = q[CHOOSE x \in u : TRUE] + k[u \ {CHOOSE x \in u : TRUE}]
    BY <1>3 DEF SumsTo
  <2>. HIDE DEF S, q
  <2>. QED  BY <1>2, <2>1, <2>2
<1>5. \E f : f = [u \in SUBSET S |->
                    IF u = {} THEN 0
                    ELSE ledger[CHOOSE x \in u : TRUE].amount
                           + f[u \ {CHOOSE x \in u : TRUE}]]
             /\ M!Of(kinds, currency, days) = f[S]
  <2>1. k = [u \in SUBSET S |->
                    IF u = {} THEN 0
                    ELSE ledger[CHOOSE x \in u : TRUE].amount
                           + k[u \ {CHOOSE x \in u : TRUE}]]
    <3>. DEFINE l == [u \in SUBSET S |->
                    IF u = {} THEN 0
                    ELSE ledger[CHOOSE x \in u : TRUE].amount
                           + k[u \ {CHOOSE x \in u : TRUE}]]
    <3>1. \A u \in SUBSET S : k[u] = l[u]
      BY <1>4
    <3>. QED  BY <1>3, <3>1
  <2>. QED  BY ONLY <2>1 DEF M!Of, M!MapThenSumSet, M!MapThenFoldSet, S
<1>6. PICK f : f = [u \in SUBSET S |->
                    IF u = {} THEN 0
                    ELSE ledger[CHOOSE x \in u : TRUE].amount
                           + f[u \ {CHOOSE x \in u : TRUE}]]
             /\ M!Of(kinds, currency, days) = f[S]
  BY <1>5
<1>. DEFINE Y == {u \in SUBSET S : f[u] \notin Nat}
<1>7. Y = {}
  <2> SUFFICES ASSUME Y # {} PROVE FALSE
    OBVIOUS
  <2>1. PICK u \in Y : \A v \in Y : v \subseteq u => v = u
    <3>1. Y \subseteq SUBSET S
      OBVIOUS
    <3>. HIDE DEF Y, S
    <3>. QED  BY <1>1, <3>1, LeastSubset
  <2>2. u \in SUBSET S /\ f[u] \notin Nat
    OBVIOUS
  <2>3. u # {}
    BY <1>6, <2>2
  <2>4. PICK x \in u : x = (CHOOSE y \in u : TRUE) /\ u \ {x} \in SUBSET S /\ x \in S
    BY <2>2, <2>3
  <2>5. f[u \ {x}] \in Nat
    BY <2>1, <2>4
  <2>6. f[u] = ledger[x].amount + f[u \ {x}]
    BY <1>6, <2>2, <2>3, <2>4
  <2>7. ledger[x].amount \in Nat
    BY <1>2, <2>4
  <2>. HIDE DEF S, q, Y
  <2>. QED  BY <2>2, <2>5, <2>6, <2>7
<1>. QED  BY <1>6, <1>7

(* A page is not read where the ledger starts.                             *)
LEMMA PageInit == M!Init => PageInv
  BY FS_EmptySet DEF M!Init, M!Unread, M!Days, PageInv

LEMMA PageStays == ASSUME PageInv, UNCHANGED financeVars PROVE PageInv'
  BY DEF PageInv, financeVars

(* A write gives one id out, at the most.                                  *)
LEMMA GivenFinite ==
  ASSUME IsFiniteSet(given), NEW e \in Entries, M!Log(e) \/ M!Update(e) \/ M!Delete(e)
  PROVE  IsFiniteSet(given)'
<1>1. given' = given \/ given' = given \cup {e}
  BY DEF M!Log, M!Update, M!Delete
<1>. QED  BY <1>1, FS_AddElement

(* Each read of a page keeps what the others read.                         *)
LEMMA PageKept ==
  ASSUME FinanceInv, PageInv, M!Next
  PROVE  PageInv'
<1>1. ASSUME UNCHANGED <<page, given>>, today' \in M!Days PROVE PageInv'
  BY <1>1 DEF PageInv
<1>2. ASSUME UNCHANGED <<page, today>>, IsFiniteSet(given)' PROVE PageInv'
  BY <1>2 DEF PageInv
<1>3. CASE M!PanelWrites
  BY <1>2, <1>3, GivenFinite DEF M!PanelWrites, PageInv
<1>4. CASE M!Item
  BY <1>2, <1>4, GivenFinite DEF M!Item, M!Refuse, PageInv
<1>5. CASE M!RenameCategory \/ M!SetCategoryColor \/ M!Call \/ M!Answer
  BY <1>1, <1>5 DEF M!RenameCategory, M!SetCategoryColor, M!Call, M!Answer, PageInv
<1>6. CASE M!DayPasses
  <2>1. M!Cardinality(M!Days) = 2
    <3>1. \A n \in Int : n > 1 => Cardinality(1..n) = n
      <4> SUFFICES ASSUME NEW n \in Int, n > 1 PROVE Cardinality(1..n) = n
        OBVIOUS
      <4>1. Cardinality(1..n) = IF 1 > n THEN 0 ELSE n - 1 + 1
        BY FS_Interval
      <4>. QED  BY <4>1
    <3>a. 2 \in Int /\ 2 > 1
      OBVIOUS
    <3>2. Cardinality(1..2) = 2
      BY <3>1, <3>a, Zenon
    <3>. QED  BY <3>2 DEF M!Cardinality, Cardinality, M!Days
  <2>. QED  BY <1>1, <1>6, <2>1 DEF M!DayPasses, M!Days, PageInv
<1>7. PICK average, days, trend :
        page = [at |-> page.at, average |-> average, days |-> days, trend |-> trend]
  BY DEF FinanceInv, FinanceTypes, PageIs
<1>8. ASSUME M!Still PROVE today' \in M!Days /\ IsFiniteSet(given)'
  BY <1>8 DEF M!Still, PageInv
<1>9. CASE M!ReadByCategory
  <2>1. /\ page'.at = "days"
        /\ page'.average = [c \in M!Currencies |-> M!Outflow(c)]
    BY <1>7, <1>9 DEF M!ReadByCategory
  <2>2. \A c \in M!Currencies : M!Outflow(c) \in Nat
    BY AddsUp DEF M!Outflow, PageInv
  <2>. QED  BY <1>8, <1>9, <2>1, <2>2 DEF PageInv, M!ReadByCategory
<1>10. CASE M!ReadByDay
  <2>. DEFINE d == [c \in M!Currencies |-> [day \in M!Days |-> M!Of({"expense"}, c, {day})]]
  <2>1. /\ page'.at = "months" /\ page'.average = page.average
        /\ page'.days = d /\ page.at # "none"
    BY <1>7, <1>10 DEF M!ReadByDay
  <2>2. \A c \in M!Currencies, day \in M!Days : d[c][day] \in Nat
    <3>1. ASSUME NEW c \in M!Currencies, NEW day \in M!Days
          PROVE  M!Of({"expense"}, c, {day}) \in Nat
      BY AddsUp DEF PageInv
    <3>. QED  BY <3>1
  <2>. HIDE DEF d
  <2>. QED  BY <1>8, <1>10, <2>1, <2>2 DEF PageInv, M!ReadByDay
<1>11. CASE M!ReadByMonth
  <2>. DEFINE r == [c \in M!Currencies |-> <<M!Inflow(c), M!Outflow(c)>>]
              a == [c \in M!Currencies |-> page.average[c] \div today]
  <2>1. /\ page'.at = "read" /\ page'.trend = r /\ page'.average = a
        /\ page'.days = page.days /\ page.at = "months"
    BY <1>7, <1>11 DEF M!ReadByMonth
  <2>2. \A c \in M!Currencies : r[c][1] \in Nat /\ r[c][2] \in Nat
    <3>1. ASSUME NEW c \in M!Currencies PROVE M!Inflow(c) \in Nat /\ M!Outflow(c) \in Nat
      BY AddsUp DEF M!Inflow, M!Outflow, PageInv
    <3>. QED  BY <3>1
  <2>3. \A c \in M!Currencies : a[c] \in Nat
    <3>1. \A c \in M!Currencies : page.average[c] \in Nat
      BY <2>1 DEF PageInv
    <3>2. today = 1 \/ today = 2
      BY DEF PageInv, M!Days
    <3>3. \A n \in Nat : n \div 1 \in Nat /\ n \div 2 \in Nat
      OBVIOUS
    <3>. QED  BY <3>1, <3>2, <3>3
  <2>. HIDE DEF r, a
  <2>. QED  BY <1>8, <1>11, <2>1, <2>2, <2>3 DEF PageInv, M!ReadByMonth
<1>12. CASE M!Leave
  BY <1>8, <1>12 DEF PageInv, M!Leave, M!Unread
<1>. QED
  BY <1>3, <1>4, <1>5, <1>6, <1>9, <1>10, <1>11, <1>12 DEF M!Next

(* The largest of a few numbers is none smaller than any of them.          *)
LEMMA LargestIs ==
  ASSUME NEW a \in Nat, NEW b \in Nat, NEW c \in Nat
  PROVE  \A n \in {0, a, b, c} : n <= M!Largest({0, a, b, c})
<1>1. \E n \in {0, a, b, c} : \A m \in {0, a, b, c} : m <= n
  OBVIOUS
<1>. DEFINE N == {0, a, b, c}
<1>. HIDE DEF N
<1>2. \A m \in N : m <= M!Largest(N)
  BY <1>1 DEF M!Largest, N
<1>. QED  BY <1>2 DEF N

(* So no bar is longer than the scale that is of it and the others.        *)
LEMMA BarsDoFit == ASSUME PageInv PROVE M!BarsFit
<1> SUFFICES ASSUME page.at = "read", NEW bar \in M!Bars PROVE bar[1] <= bar[2]
  BY DEF M!BarsFit
<1>1. PICK c \in M!Currencies :
        bar \in {<<page.average[c], M!Scale(c)>>,
                 <<page.trend[c][1], M!TrendScale(c)>>, <<page.trend[c][2], M!TrendScale(c)>>}
                \cup {<<page.days[c][d], M!Scale(c)>> : d \in M!Days}
  BY DEF M!Bars
<1>2. /\ page.average[c] \in Nat /\ page.days[c][1] \in Nat /\ page.days[c][2] \in Nat
      /\ page.trend[c][1] \in Nat /\ page.trend[c][2] \in Nat
  BY DEF PageInv, M!Days
<1>3. M!Scale(c) = M!Largest({0, page.average[c], page.days[c][1], page.days[c][2]})
  <2>1. {0, page.average[c]} \cup {page.days[c][d] : d \in M!Days}
          = {0, page.average[c], page.days[c][1], page.days[c][2]}
    BY DEF M!Days
  <2>. QED  BY <2>1 DEF M!Scale
<1>4. M!TrendScale(c) = M!Largest({0, page.trend[c][1], page.trend[c][2], page.trend[c][2]})
  <2>1. {0, page.trend[c][1], page.trend[c][2]}
          = {0, page.trend[c][1], page.trend[c][2], page.trend[c][2]}
    OBVIOUS
  <2>. QED  BY <2>1 DEF M!TrendScale
<1>5. /\ page.average[c] <= M!Scale(c)
      /\ \A d \in M!Days : page.days[c][d] <= M!Scale(c)
  <2>. DEFINE N == {0, page.average[c], page.days[c][1], page.days[c][2]}
  <2>1. \A n \in N : n <= M!Largest(N)
    BY <1>2, LargestIs
  <2>2. page.average[c] \in N /\ page.days[c][1] \in N /\ page.days[c][2] \in N
    OBVIOUS
  <2>3. \A d \in M!Days : page.days[c][d] \in N
    BY <2>2 DEF M!Days
  <2>. HIDE DEF N
  <2>. QED  BY <1>3, <2>1, <2>2, <2>3 DEF N
<1>6. page.trend[c][1] <= M!TrendScale(c) /\ page.trend[c][2] <= M!TrendScale(c)
  BY <1>2, <1>4, LargestIs
<1>. QED  BY <1>1, <1>5, <1>6

-----------------------------------------------------------------------------
(* The documents                                                           *)

(* What a call holds of an edit.                                           *)
DocumentCalls ==
    [at : {"idle", "waiting", "writing", "written"},
     op : {None, "add", "replace", "remove", "whole"},
     words : SUBSET DocumentsEntries, text : SUBSET DocumentsEntries,
     next : SUBSET DocumentsEntries]

(* Who holds the lock will write what its call makes of the document that  *)
(* is there.                                                               *)
DocumentsInv ==
    /\ D!TypeOK
    /\ calls \in [DocumentsWriters -> DocumentCalls]
    /\ D!EditsAddUp
    /\ \A w \in DocumentsWriters :
          calls[w].at \in {"writing", "written"} =>
              /\ documentsLock = w
              /\ calls[w].next = D!Edited(calls[w], content)

(* The document as it is at first.                                         *)
LEMMA DocumentsInit == D!Init => DocumentsInv
  BY DocumentsAssumption
  DEF D!Init, DocumentsInv, D!TypeOK, D!EditsAddUp, D!NoCall, DocumentCalls

(* Nothing of it changes while none of its variables does.                 *)
LEMMA DocumentsStays == DocumentsInv /\ UNCHANGED documentsVars => DocumentsInv'
  BY DEF documentsVars, DocumentsInv, D!TypeOK, D!EditsAddUp, D!Edited, D!Found

(* A call that goes on with the lock keeps it, if what it will write is    *)
(* what it makes of the document.                                          *)
LEMMA CallGoesOn ==
  ASSUME DocumentsInv, NEW w \in DocumentsWriters, NEW c \in DocumentCalls,
         calls' = [calls EXCEPT ![w] = c],
         UNCHANGED <<content, made, applied>>,
         documentsLock \in {None, w}, documentsLock' = w,
         c.next = D!Edited(c, content)
  PROVE  DocumentsInv'
<1> USE DocumentsAssumption DEF DocumentsInv
<1>1. /\ c.words \subseteq DocumentsEntries /\ c.next \subseteq DocumentsEntries
      /\ c.at \in {"idle", "waiting", "writing", "written"}
  BY DEF DocumentCalls
<1>2. /\ calls' \in [DocumentsWriters -> DocumentCalls] /\ calls'[w] = c
      /\ \A v \in DocumentsWriters \ {w} : calls'[v] = calls[v]
  OBVIOUS
<1>3. D!TypeOK'
  BY <1>1, <1>2 DEF D!TypeOK
<1>4. D!EditsAddUp'
  BY DEF D!EditsAddUp
<1>5. \A v \in DocumentsWriters \ {w} : calls[v].at \notin {"writing", "written"}
  OBVIOUS
<1>6. ASSUME NEW v \in DocumentsWriters, calls'[v].at \in {"writing", "written"}
      PROVE  documentsLock' = v /\ calls'[v].next = D!Edited(calls'[v], content')
  BY <1>2, <1>5, <1>6
<1>. QED  BY <1>2, <1>3, <1>4, <1>6

(* Every step of a call, and one that fails, keep it.                      *)
LEMMA DocumentsKept == DocumentsInv /\ D!Next => DocumentsInv'
<1> SUFFICES ASSUME DocumentsInv, NEW w \in DocumentsWriters,
                    \/ D!EditEntry(w) \/ D!ReplaceDocument(w)
                    \/ D!RespondWithList(w) \/ D!Rewrite(w) \/ D!WriteTemp(w)
                    \/ D!Rename(w) \/ D!Fail(w)
             PROVE  DocumentsInv'
  BY DEF D!Next
<1>a. calls[w] \in DocumentCalls /\ content \subseteq DocumentsEntries
  BY DEF DocumentsInv, D!TypeOK
<1>1. ASSUME NEW op \in {"add", "replace", "remove", "whole"},
             NEW words \in SUBSET DocumentsEntries,
             NEW whole \in SUBSET DocumentsEntries, D!Call(w, op, words, whole)
      PROVE  DocumentsInv'
  BY <1>1, DocumentsAssumption
  DEF D!Call, DocumentsInv, D!TypeOK, D!EditsAddUp, DocumentCalls, D!NoCall,
      D!Edited, D!Found
<1>2. CASE D!EditEntry(w)
  <2>1. PICK e \in DocumentsEntries,
             words \in SUBSET DocumentsEntries \ {{}} :
               \/ D!Call(w, "add", {}, {e})
               \/ D!Call(w, "replace", words, {e})
               \/ D!Call(w, "remove", words, {})
    BY <1>2 DEF D!EditEntry
  <2>2. /\ {e} \in SUBSET DocumentsEntries /\ {} \in SUBSET DocumentsEntries
        /\ words \in SUBSET DocumentsEntries
    OBVIOUS
  <2>. QED  BY ONLY <2>1, <2>2, <1>1
<1>3. CASE D!ReplaceDocument(w) \/ D!RespondWithList(w)
  BY <1>1, <1>3 DEF D!ReplaceDocument, D!RespondWithList
<1>b. D!Edited(calls[w], content) \in SUBSET DocumentsEntries
  BY <1>a DEF DocumentCalls, D!Edited, D!Found
<1>8. CASE calls' = [calls EXCEPT ![w] = D!NoCall] /\ UNCHANGED <<content, made, applied>>
           /\ documentsLock' = documentsLock /\ calls[w].at = "waiting"
  BY <1>8, <1>a, DocumentsAssumption
  DEF DocumentsInv, D!TypeOK, D!EditsAddUp, DocumentCalls, D!NoCall
<1>4. CASE D!Rewrite(w)
  <2> DEFINE next == D!Edited(calls[w], content)
  <2>1. CASE D!Refused(calls[w])
    BY <1>4, <1>8, <2>1 DEF D!Rewrite
  <2>2. CASE ~D!Refused(calls[w])
    <3>1. /\ documentsLock = None /\ documentsLock' = w
          /\ calls' = [calls EXCEPT ![w].at = "writing", ![w].next = next]
          /\ UNCHANGED <<content, made, applied>>
      BY <1>4, <2>2 DEF D!Rewrite, D!HasLock
    <3> DEFINE c == [calls[w] EXCEPT !.at = "writing", !.next = next]
    <3>2. /\ c \in DocumentCalls /\ c.next = next /\ c.op = calls[w].op
          /\ c.words = calls[w].words /\ c.text = calls[w].text
      BY <1>a, <1>b DEF DocumentCalls
    <3>3. calls' = [calls EXCEPT ![w] = c]
      BY <3>1
    <3> HIDE DEF c
    <3>4. c.next = D!Edited(c, content)
      BY <3>2 DEF D!Edited, D!Found
    <3>. QED  BY <3>1, <3>2, <3>3, <3>4, CallGoesOn
  <2>. QED  BY <2>1, <2>2
<1>5. CASE D!WriteTemp(w)
  <2>1. /\ documentsLock' = documentsLock /\ calls[w].at = "writing"
        /\ calls' = [calls EXCEPT ![w].at = "written"]
        /\ UNCHANGED <<content, made, applied>>
    BY <1>5 DEF D!WriteTemp
  <2>2. documentsLock = w /\ calls[w].next = D!Edited(calls[w], content)
    BY <2>1 DEF DocumentsInv
  <2> DEFINE c == [calls[w] EXCEPT !.at = "written"]
  <2>3. /\ c \in DocumentCalls /\ c.next = calls[w].next /\ c.op = calls[w].op
        /\ c.words = calls[w].words /\ c.text = calls[w].text
    BY <1>a DEF DocumentCalls
  <2>4. calls' = [calls EXCEPT ![w] = c]
    BY <2>1
  <2> HIDE DEF c
  <2>5. c.next = D!Edited(c, content)
    BY <2>2, <2>3 DEF D!Edited, D!Found
  <2>. QED  BY <2>1, <2>2, <2>3, <2>4, <2>5, CallGoesOn
<1>6. CASE D!Rename(w)
  BY <1>6, <1>a, DocumentsAssumption
  DEF D!Rename, DocumentsInv, D!TypeOK, D!EditsAddUp, DocumentCalls, D!NoCall,
      D!Edited, D!Found
<1>7. CASE D!Fail(w)
  BY <1>7, <1>a, DocumentsAssumption
  DEF D!Fail, DocumentsInv, D!TypeOK, D!EditsAddUp, DocumentCalls, D!NoCall
<1>. QED
  BY <1>2, <1>3, <1>4, <1>5, <1>6, <1>7

-----------------------------------------------------------------------------
(* The traces                                                              *)

(* The inductive invariant of the traces: turns that have not begun have   *)
(* no row.                                                                 *)
TracesInv ==
    /\ T!TypeOK
    /\ T!NoOrphans
    /\ T!BudgetIsOwn
    /\ \A t \in T!Turns : t > last => stage[t] = "new" /\ tracesRows[t] = "none"

(* Rows of the account of t that came after t. *)
Newer(t) == {u \in T!Turns : u > t /\ who[u] = who[t] /\ tracesRows[u] # "none"}

(* The Cardinality that Traces counts with is the one of FiniteSets.       *)
LEMMA SameCardinality == ASSUME NEW S PROVE T!Cardinality(S) = Cardinality(S)
  BY DEF T!Cardinality, Cardinality

(* The traces as they are at first.                                        *)
LEMMA TracesInit == T!Init => TracesInv
<1> SUFFICES ASSUME T!Init PROVE TracesInv
  OBVIOUS
<1> USE TracesAssumption DEF T!Init
<1>1. T!TypeOK
  <2>1. /\ last \in 0..MaxTurns /\ who \in [T!Turns -> Owners \cup {None}]
        /\ stage \in [T!Turns -> {"new", "begun", "running", "pruning",
                                  "sweeping", "done"}]
        /\ sequence \in [T!Turns -> 0..MaxSteps]
        /\ tracesRows \in [T!Turns -> {"none", "open", "complete", "gone"}]
    OBVIOUS
  <2>2. unwritten = {} /\ spans = {}
    OBVIOUS
  <2>3. aged \in 0..MaxTurns
    OBVIOUS
  <2>4. torn \in BOOLEAN
    BY Zenon
  <2>. QED  BY <2>1, <2>2, <2>3, <2>4 DEF T!TypeOK
<1>2. T!NoOrphans /\ T!BudgetIsOwn
  BY DEF T!NoOrphans, T!BudgetIsOwn
<1>3. \A t \in T!Turns : t > last => stage[t] = "new" /\ tracesRows[t] = "none"
  OBVIOUS
<1>. QED  BY <1>1, <1>2, <1>3 DEF TracesInv

(* Nothing of them changes while none of their variables does.             *)
LEMMA TracesStays == TracesInv /\ UNCHANGED tracesVars => TracesInv'
  BY DEF tracesVars, TracesInv, T!TypeOK, T!NoOrphans, T!BudgetIsOwn, T!Turns, T!Stored

(* A larger set of turns is not fewer than Keep.                           *)
LEMMA MoreOfThem ==
  ASSUME NEW S \in SUBSET T!Turns, NEW R \in SUBSET T!Turns, S \subseteq R,
         Cardinality(S) >= Keep
  PROVE  Cardinality(R) >= Keep
<1>1. IsFiniteSet(1..MaxTurns)
  BY FS_Interval, TracesAssumption
<1>2. IsFiniteSet(R)
  BY <1>1, FS_Subset DEF T!Turns
<1>3. IsFiniteSet(S) /\ Cardinality(S) <= Cardinality(R)
  BY <1>2, FS_Subset
<1>4. Cardinality(S) \in Nat /\ Cardinality(R) \in Nat
  BY <1>2, <1>3, FS_CardinalityType
<1>. QED
  BY <1>3, <1>4, TracesAssumption

(* A row that is gone stays older than the retention or outnumbered, when *)
(* no row of the account is undone. *)
LEMMA BudgetStays ==
  ASSUME TracesInv, T!TypeOK', aged' >= aged,
         \A t \in T!Turns :
            /\ t <= last => who'[t] = who[t]
            /\ tracesRows'[t] = "gone" => tracesRows[t] = "gone"
            /\ tracesRows[t] # "none" => tracesRows'[t] # "none"
  PROVE  T!BudgetIsOwn'
<1> SUFFICES ASSUME NEW t \in T!Turns, tracesRows'[t] = "gone", ~ t <= aged'
             PROVE  Cardinality(Newer(t)') >= Keep
  BY SameCardinality DEF T!BudgetIsOwn, Newer
<1>1. Cardinality(Newer(t)) >= Keep /\ t <= last
  BY SameCardinality
  DEF TracesInv, T!TypeOK, T!BudgetIsOwn, Newer, T!Turns
<1>2. Newer(t) \subseteq Newer(t)'
  <2> SUFFICES ASSUME NEW u \in Newer(t) PROVE u \in Newer(t)'
    OBVIOUS
  <2>1. u \in T!Turns /\ tracesRows[u] # "none" /\ who[u] = who[t] /\ u > t
    BY DEF Newer
  <2>2. u <= last
    BY <2>1 DEF TracesInv, T!TypeOK, T!Turns
  <2>. QED  BY <1>1, <2>1, <2>2 DEF Newer, T!Turns
<1>. QED  BY <1>1, <1>2, MoreOfThem DEF Newer, T!Turns

(* A step that takes no row away. *)
LEMMA TracesKeptRows ==
  ASSUME TracesInv, T!TypeOK', T!NoOrphans',
         \A t \in T!Turns : t > last' => stage'[t] = "new" /\ tracesRows'[t] = "none",
         aged' >= aged,
         \A t \in T!Turns :
            /\ t <= last => who'[t] = who[t]
            /\ tracesRows'[t] = "gone" => tracesRows[t] = "gone"
            /\ tracesRows[t] # "none" => tracesRows'[t] # "none"
  PROVE  TracesInv'
  BY BudgetStays DEF TracesInv

(* Every step of a turn, the pruning and the sweep keep it.                *)
LEMMA TracesKept == TracesInv /\ T!Next => TracesInv'
<1> SUFFICES ASSUME TracesInv, T!Next PROVE TracesInv'
  OBVIOUS
<1>0. T!TypeOK /\ T!NoOrphans /\ T!BudgetIsOwn
      /\ \A t \in T!Turns : t > last => stage[t] = "new" /\ tracesRows[t] = "none"
  BY DEF TracesInv
<1> USE TracesAssumption DEF T!TypeOK, T!NoOrphans, T!Turns, T!Stored
<1>1. CASE T!Begin
  <2>1. T!TypeOK' /\ T!NoOrphans'
    BY <1>0, <1>1 DEF T!Begin
  <2>2. /\ aged' = aged /\ tracesRows' = tracesRows
        /\ \A u \in T!Turns :
              /\ u > last' => stage'[u] = "new" /\ tracesRows'[u] = "none"
              /\ u <= last => who'[u] = who[u]
    BY <1>0, <1>1 DEF T!Begin
  <2>3. aged' >= aged
    BY <1>0, <2>2
  <2>. HIDE DEF T!TypeOK, T!NoOrphans, T!Stored
  <2>. QED  BY <1>0, <2>1, <2>2, <2>3, TracesKeptRows
<1>2. CASE T!Age
  <2>1. T!TypeOK' /\ T!NoOrphans' /\ aged' >= aged
    BY <1>0, <1>2 DEF T!Age
  <2>2. UNCHANGED <<tracesRows, who, last, stage>>
    BY <1>2 DEF T!Age
  <2>. HIDE DEF T!TypeOK, T!NoOrphans, T!Stored
  <2>. QED  BY <1>0, <2>1, <2>2, TracesKeptRows
<1>3. CASE T!Die
  <2>1. stage' \in [T!Turns -> {"new", "begun", "running", "pruning",
                               "sweeping", "done"}]
    BY <1>0, <1>3 DEF T!Die
  <2>2. T!TypeOK' /\ aged' = aged
    BY <1>0, <1>3, <2>1 DEF T!Die
  <2>3. T!NoOrphans'
    BY <1>0, <1>3 DEF T!Die
  <2>4. \A t \in T!Turns : t > last' => stage'[t] = "new" /\ tracesRows'[t] = "none"
    BY <1>0, <1>3 DEF T!Die
  <2>5. /\ aged' >= aged
        /\ \A t \in T!Turns :
              /\ t <= last => who'[t] = who[t]
              /\ tracesRows'[t] = "gone" => tracesRows[t] = "gone"
              /\ tracesRows[t] # "none" => tracesRows'[t] # "none"
    BY <1>0, <1>3, <2>2 DEF T!Die
  <2>. HIDE DEF T!TypeOK, T!NoOrphans, T!Stored
  <2>. QED  BY <2>2, <2>3, <2>4, <2>5, TracesKeptRows
<1>4. ASSUME NEW t \in T!Turns, T!StartTrace(t) PROVE TracesInv'
  <2>1. T!TypeOK'
    BY <1>0, <1>4 DEF T!StartTrace
  <2>2. T!NoOrphans'
    BY <1>0, <1>4 DEF T!StartTrace
  <2>3. /\ aged' = aged /\ who' = who /\ last' = last
        /\ \A u \in T!Turns :
              /\ u > last' => stage'[u] = "new" /\ tracesRows'[u] = "none"
              /\ tracesRows'[u] = "gone" => tracesRows[u] = "gone"
              /\ tracesRows[u] # "none" => tracesRows'[u] # "none"
    BY <1>0, <1>4 DEF T!StartTrace
  <2>4. aged' >= aged
    BY <1>0, <2>3
  <2>. HIDE DEF T!TypeOK, T!NoOrphans, T!Stored
  <2>. QED  BY <2>1, <2>2, <2>3, <2>4, TracesKeptRows
<1>5. ASSUME NEW t \in T!Turns, T!Step(t) PROVE TracesInv'
  <2>a. T!TypeOK'
    <3>1. sequence[t] + 1 \in 1..MaxSteps
      BY <1>0, <1>5 DEF T!Step
    <3>2. sequence' \in [T!Turns -> 0..MaxSteps]
      BY <1>0, <1>5, <3>1 DEF T!Step
    <3>3. unwritten' \subseteq T!Turns \X (1..MaxSteps)
      BY <1>0, <1>5, <3>1 DEF T!Step
    <3>. QED  BY <1>0, <1>5, <3>2, <3>3 DEF T!Step
  <2>b. T!NoOrphans'
    BY <1>0, <1>5 DEF T!Step
  <2>1. T!TypeOK' /\ T!NoOrphans'
    BY <2>a, <2>b
  <2>2. UNCHANGED <<aged, tracesRows, who, last, stage>>
    BY <1>5 DEF T!Step
  <2>3. aged' >= aged
    BY <1>0, <2>2
  <2>. HIDE DEF T!TypeOK, T!NoOrphans, T!Stored
  <2>. QED  BY <1>0, <2>1, <2>2, <2>3, TracesKeptRows
<1>6. ASSUME NEW t \in T!Turns, T!Complete(t) PROVE TracesInv'
  <2>1. T!TypeOK'
    BY <1>0, <1>6 DEF T!Complete, T!Closed
  <2>2. T!NoOrphans'
    BY <1>0, <1>6 DEF T!Complete, T!Closed
  <2>3. /\ aged' = aged /\ who' = who /\ last' = last
        /\ \A u \in T!Turns :
              /\ u > last' => stage'[u] = "new" /\ tracesRows'[u] = "none"
              /\ tracesRows'[u] = "gone" => tracesRows[u] = "gone"
              /\ tracesRows[u] # "none" => tracesRows'[u] # "none"
    BY <1>0, <1>6 DEF T!Complete, T!Closed
  <2>4. aged' >= aged
    BY <1>0, <2>3
  <2>. HIDE DEF T!TypeOK, T!NoOrphans, T!Stored
  <2>. QED  BY <2>1, <2>2, <2>3, <2>4, TracesKeptRows
<1>7. ASSUME NEW t \in T!Turns, T!Sweep(t) PROVE TracesInv'
  <2>1. T!TypeOK' /\ T!NoOrphans'
    BY <1>0, <1>7 DEF T!Sweep, T!Swept
  <2>2. \A u \in T!Turns : u > last' => stage'[u] = "new" /\ tracesRows'[u] = "none"
    BY <1>0, <1>7 DEF T!Sweep
  <2>3. /\ aged' >= aged
        /\ \A u \in T!Turns :
              /\ u <= last => who'[u] = who[u]
              /\ tracesRows'[u] = "gone" => tracesRows[u] = "gone"
              /\ tracesRows[u] # "none" => tracesRows'[u] # "none"
    BY <1>0, <1>7 DEF T!Sweep
  <2>. HIDE DEF T!TypeOK, T!NoOrphans, T!Stored
  <2>. QED  BY <2>1, <2>2, <2>3, TracesKeptRows
<1>8. ASSUME NEW t \in T!Turns, NEW n \in 1..MaxSteps, T!Append(t, n)
      PROVE  TracesInv'
  <2>1. T!TypeOK' /\ T!NoOrphans'
    BY <1>0, <1>8 DEF T!Append, T!HasItsTrace
  <2>2. UNCHANGED <<aged, tracesRows, who, last, stage>>
    BY <1>8 DEF T!Append
  <2>3. aged' >= aged
    BY <1>0, <2>2
  <2>. HIDE DEF T!TypeOK, T!NoOrphans, T!Stored
  <2>. QED  BY <1>0, <2>1, <2>2, <2>3, TracesKeptRows
<1>9. ASSUME NEW t \in T!Turns, T!PruneTraces(t) PROVE TracesInv'
  <2>1. CASE tracesRows' = tracesRows
    <3>1. T!TypeOK'
      BY <1>0, <1>9, <2>1 DEF T!PruneTraces
    <3>2. T!NoOrphans'
      BY <1>0, <1>9, <2>1 DEF T!PruneTraces
    <3>3. /\ aged' = aged /\ who' = who /\ last' = last
          /\ \A u \in T!Turns :
                u > last => stage'[u] = "new" /\ tracesRows[u] = "none"
      BY <1>0, <1>9 DEF T!PruneTraces
    <3>4. aged' >= aged
      BY <1>0, <3>3
    <3> HIDE DEF T!TypeOK, T!NoOrphans
    <3>. QED  BY <1>0, <2>1, <3>1, <3>2, <3>3, <3>4, TracesKeptRows
  <2>2. CASE tracesRows' # tracesRows
    <3> DEFINE Swept(u) == /\ T!Stored(u) /\ who[u] = who[t]
                           /\ u <= aged \/ ~T!Newest(who[t], u)
    <3>1. /\ tracesRows' = [u \in T!Turns |->
                 IF Swept(u) THEN "gone" ELSE tracesRows[u]]
          /\ stage[t] = "pruning"
          /\ stage' = [stage EXCEPT ![t] = "sweeping"]
          /\ UNCHANGED <<last, who, sequence, unwritten, spans, aged, torn>>
      BY <1>9, <2>2 DEF T!PruneTraces
    <3> HIDE DEF Swept
    <3>2. T!TypeOK' /\ T!NoOrphans'
      BY <1>0, <3>1
    <3>3. \A u \in T!Turns : u > last' => stage'[u] = "new" /\ tracesRows'[u] = "none"
      BY <1>0, <3>1 DEF Swept
    <3>4. T!BudgetIsOwn'
      <4> SUFFICES ASSUME NEW u \in T!Turns, tracesRows'[u] = "gone", ~ u <= aged'
                   PROVE  Cardinality(Newer(u)') >= Keep
        BY SameCardinality DEF T!BudgetIsOwn, Newer
      <4>0. who' = who /\ aged' = aged
        BY <3>1
      <4>1. Newer(u)' = Newer(u)
        <5>1. \A v \in T!Turns : tracesRows'[v] # "none" <=> tracesRows[v] # "none"
          BY <1>0, <3>1 DEF Swept
        <5>. QED  BY <5>1, <4>0 DEF Newer
      <4>2. CASE tracesRows[u] = "gone"
        BY <1>0, <4>0, <4>1, <4>2, SameCardinality DEF T!BudgetIsOwn, Newer
      <4>3. CASE tracesRows[u] # "gone"
        <5> DEFINE Kept == {v \in T!Turns : /\ v > u /\ T!Stored(v)
                                            /\ T!Counts(who[t], v)}
        <5>1. who[u] = who[t] /\ ~T!Newest(who[t], u)
          BY <3>1, <4>0, <4>3 DEF Swept
        <5>2. ~(Cardinality(Kept) < Keep)
          BY <5>1, SameCardinality DEF T!Newest
        <5>3. Kept \subseteq Newer(u)
          BY <5>1 DEF Newer, T!Counts
        <5>4. Cardinality(Kept) \in Nat
          <6>1. IsFiniteSet(1..MaxTurns) /\ Kept \in SUBSET (1..MaxTurns)
            BY FS_Interval
          <6>. QED  BY <6>1, FS_Subset, FS_CardinalityType
        <5>. QED  BY <4>1, <5>2, <5>3, <5>4, MoreOfThem DEF Newer
      <4>. QED  BY <4>2, <4>3
    <3>. QED  BY <3>2, <3>3, <3>4 DEF TracesInv
  <2>. QED  BY <2>1, <2>2
<1>. QED
  BY <1>1, <1>2, <1>3, <1>4, <1>5, <1>6, <1>7, <1>8, <1>9 DEF T!Next

-----------------------------------------------------------------------------
(* The components, side by side                                            *)

(* The invariant of the component that a behaviour is about.               *)
SumInv ==
    /\ focus \in {"approvals", "config", "boot", "home", "cutover",
                  "accounts", "finance", "documents", "traces"}
    /\ focus = "approvals" => IInv
    /\ focus = "config" => ConfigInv
    /\ focus = "boot" => BootInv
    /\ focus = "home" => HomeInv
    /\ focus = "cutover" => CutoverInv
    /\ focus = "accounts" => AccountsInv
    /\ focus = "finance" => FinanceInv /\ PageInv
    /\ focus = "documents" => DocumentsInv
    /\ focus = "traces" => TracesInv

(* Every step of the home keeps its invariant.                             *)
LEMMA HomeKept == HomeInv /\ H!Next => HomeInv'
  BY HomeTypesKept, HistoryKept, MovedKept, OriginalsKeptOn,
     LiveDocumentsKeptOn DEF HomeInv

(* A step is one of the component that the behaviour is about, or leaves   *)
(* it alone.                                                               *)
LEMMA StepOfFocus ==
  ASSUME [SumNext]_sumVars
  PROVE  /\ focus' = focus
         /\ focus = "approvals" => [Next]_vars
         /\ focus = "config" => F!Next \/ UNCHANGED configVars
         /\ focus = "boot" => B!Next \/ UNCHANGED bootVars
         /\ focus = "home" => H!Next \/ UNCHANGED homeVars
         /\ focus = "cutover" => X!Next \/ UNCHANGED cutoverVars
         /\ focus = "accounts" => P!Next \/ UNCHANGED accountsVars
         /\ focus = "finance" => M!Next \/ UNCHANGED financeVars
         /\ focus = "documents" => D!Next \/ UNCHANGED documentsVars
         /\ focus = "traces" => T!Next \/ UNCHANGED tracesVars
<1>1. CASE UNCHANGED sumVars
  <2>1. UNCHANGED <<focus, approvalsVars, configVars, bootVars, homeVars,
                    cutoverVars, accountsVars, financeVars, documentsVars,
                    tracesVars>>
    BY <1>1 DEF sumVars
  <2>2. UNCHANGED approvalsVars => UNCHANGED vars
    <3> SUFFICES ASSUME UNCHANGED approvalsVars PROVE UNCHANGED vars
      OBVIOUS
    <3>1. /\ UNCHANGED current /\ UNCHANGED status /\ UNCHANGED bound
          /\ UNCHANGED mode /\ UNCHANGED closed /\ UNCHANGED connection
          /\ UNCHANGED mutating /\ UNCHANGED pc /\ UNCHANGED target
          /\ UNCHANGED verdict /\ UNCHANGED readGeneration
          /\ UNCHANGED ran /\ UNCHANGED crashes
      BY DEF approvalsVars
    <3>2. UNCHANGED stateVars /\ UNCHANGED worldVars /\ UNCHANGED tapVars
      BY <3>1 DEF stateVars, worldVars, tapVars
    <3>. QED  BY <3>1, <3>2 DEF vars
  <2>. QED  BY <2>1, <2>2
<1>2. CASE SumNext
  BY <1>2 DEF SumNext, ApprovalsStep, ConfigStep, BootStep, HomeStep,
              CutoverStep, AccountsStep, FinanceStep, DocumentsStep,
              TracesStep
<1>. QED  BY <1>1, <1>2

(* The invariant holds at first, whatever the behaviour is about,          *)
LEMMA SumInitInv == SumInit => SumInv
<1> SUFFICES ASSUME SumInit PROVE SumInv
  OBVIOUS
<1>1. /\ focus \in {"approvals", "config", "boot", "home", "cutover",
                    "accounts", "finance", "documents", "traces"}
      /\ focus = "approvals" => Init
      /\ focus = "config" => F!Init
      /\ focus = "boot" => B!Init
      /\ focus = "home" => H!Init
      /\ focus = "cutover" => X!Init
      /\ focus = "accounts" => P!Init
      /\ focus = "finance" => M!Init
      /\ focus = "documents" => D!Init
      /\ focus = "traces" => T!Init
  BY DEF SumInit
<1>. QED
  BY <1>1, InitInv, ConfigInit, BootInit, HomeInitial, CutoverInit,
     AccountsInit, FinanceInit, PageInit, DocumentsInit, TracesInit DEF SumInv

(* and every step keeps it.                                                *)
LEMMA SumStep == SumInv /\ [SumNext]_sumVars => SumInv'
<1> SUFFICES ASSUME SumInv, [SumNext]_sumVars PROVE SumInv'
  OBVIOUS
<1>0. focus' = focus /\ focus \in {"approvals", "config", "boot", "home",
         "cutover", "accounts", "finance", "documents", "traces"}
  BY StepOfFocus DEF SumInv
<1>1. CASE focus = "approvals"
  <2>1. IInv'
    BY <1>1, StepOfFocus, TypeStep, RestStep DEF SumInv, IInv, Rest
  <2>. QED  BY <1>0, <1>1, <2>1 DEF SumInv
<1>2. CASE focus = "config"
  <2>1. ConfigInv'
    BY <1>2, StepOfFocus, ConfigKept, ConfigStays DEF SumInv
  <2>. QED  BY <1>0, <1>2, <2>1 DEF SumInv
<1>3. CASE focus = "boot"
  <2>1. BootInv'
    BY <1>3, StepOfFocus, BootKept, BootStays DEF SumInv
  <2>. QED  BY <1>0, <1>3, <2>1 DEF SumInv
<1>4. CASE focus = "home"
  <2>1. HomeInv'
    BY <1>4, StepOfFocus, HomeKept, HomeStays DEF SumInv
  <2>. QED  BY <1>0, <1>4, <2>1 DEF SumInv
<1>5. CASE focus = "cutover"
  <2>1. CutoverInv'
    BY <1>5, StepOfFocus, CutoverKept, CutoverStays DEF SumInv
  <2>. QED  BY <1>0, <1>5, <2>1 DEF SumInv
<1>6. CASE focus = "accounts"
  <2>1. AccountsInv'
    BY <1>6, StepOfFocus, AccountsKept, AccountsStays DEF SumInv
  <2>. QED  BY <1>0, <1>6, <2>1 DEF SumInv
<1>7. CASE focus = "finance"
  <2>1. FinanceInv /\ PageInv /\ (M!Next \/ UNCHANGED financeVars)
    BY <1>7, StepOfFocus DEF SumInv
  <2>2. FinanceInv' /\ PageInv'
    BY <2>1, FinanceKept, FinanceStays, PageKept, PageStays
  <2>. QED  BY <1>0, <1>7, <2>2 DEF SumInv
<1>8. CASE focus = "documents"
  <2>1. DocumentsInv'
    BY <1>8, StepOfFocus, DocumentsKept, DocumentsStays DEF SumInv
  <2>. QED  BY <1>0, <1>8, <2>1 DEF SumInv
<1>9. CASE focus = "traces"
  <2>1. TracesInv'
    BY <1>9, StepOfFocus, TracesKept, TracesStays DEF SumInv
  <2>. QED  BY <1>0, <1>9, <2>1 DEF SumInv
<1>. QED
  BY <1>0, <1>1, <1>2, <1>3, <1>4, <1>5, <1>6, <1>7, <1>8, <1>9

(* Whatever the behaviour is about, its invariant holds at every state.    *)
THEOREM SumInductive == SumSpec => []SumInv
<1>. QED  BY SumInitInv, SumStep, PTL DEF SumSpec

(* Every variable of the component at hand keeps its type, for any number  *)
(* of accounts, writers, documents, entries and turns.                     *)
THEOREM SumTyped == SumSpec => []SumTypeOK
<1>1. SumInv => SumTypeOK
  BY ConfigMeans, BootTyped, CutoverTyped, AccountsTypes, FinanceTyped
  DEF SumInv, SumTypeOK, IInv, HomeInv, AccountsInv, DocumentsInv, TracesInv
<1>. QED  BY <1>1, SumInductive, PTL

(* What a step of the configuration or of a start may never do.            *)
LEMMA BootStepSafe ==
  SumInv /\ [SumNext]_sumVars
    => [focus = "boot" => B!KeepsMeaning /\ B!StartsIfAccepted]_sumVars
<1> SUFFICES ASSUME SumInv, [SumNext]_sumVars, focus = "boot",
                    ~UNCHANGED sumVars
             PROVE  B!KeepsMeaning /\ B!StartsIfAccepted
  OBVIOUS
<1>1. B!Next /\ BootInv
  BY DEF SumInv, SumNext, ApprovalsStep, ConfigStep, BootStep, HomeStep,
         CutoverStep, AccountsStep, FinanceStep, DocumentsStep, TracesStep
<1>. QED  BY <1>1, MeaningKept, AcceptedStarts

(* Setters do not overwrite each other and leave no unreviewed tool on;    *)
(* the first document is made once, a beat that is put off is put off to   *)
(* the opening of its hours; no start changes what a document means, and   *)
(* what the editor took starts: for any number of writers and starts.      *)
THEOREM ConfigAlwaysSafe == SumSpec => ConfigSafe
<1>1. SumInv => /\ focus = "config" => F!NothingOverwritten /\ F!OnlyReviewedTools
                /\ focus = "boot" => B!CreatedOnce /\ B!OpensNext
  BY ConfigMeans, OpensAlways DEF SumInv, BootInv, BootDocInv
<1>. QED
  BY <1>1, BootStepSafe, SumInductive, PTL DEF SumSpec, ConfigSafe

(* The history a daemon serves is an account's that exists, no original    *)
(* document is lost and no later one is replaced, however often the boot   *)
(* is cut short.                                                           *)
THEOREM HomeAlwaysSafe == SumSpec => []HomeSafe
<1>1. SumInv => HomeSafe
  <2> SUFFICES ASSUME SumInv, focus = "home" PROVE H!HistoryIsSomebodys
    BY DEF SumInv, HomeInv, HomeSafe
  <2>1. HistoryInv
    BY DEF SumInv, HomeInv
  <2>. QED  BY <2>1 DEF HistoryInv, H!HistoryIsSomebodys
<1>. QED  BY <1>1, SumInductive, PTL

(* Both backups are whole before a home is changed, and nobody is signed   *)
(* out twice or stays signed in from before, whichever runs are cut short. *)
THEOREM CutoverAlwaysSafe == SumSpec => []CutoverSafe
<1>1. SumInv => CutoverSafe
  BY DEF SumInv, CutoverInv, CutoverSafe
<1>. QED  BY <1>1, SumInductive, PTL

(* No session or link outlives its credential or its person, and a login   *)
(* link signs in one browser, for any number of requests.                  *)
THEOREM AccountsAlwaysSafe == SumSpec => []AccountsSafe
<1>1. SumInv => AccountsSafe
  BY DEF SumInv, AccountsInv, AccountsSafe
<1>. QED  BY <1>1, SumInductive, PTL

(* An entry counts what was last stated for it, an error means that        *)
(* nothing was written, and no bar of a page, which is put together from   *)
(* reads of different moments, is longer than its scale: for any number of *)
(* entries and calls (finance.go, ext_finance.go).                         *)
THEOREM LedgerAlwaysSafe == SumSpec => []LedgerSafe
<1>1. SumInv => LedgerSafe
  BY BarsDoFit DEF SumInv, FinanceInv, LedgerSafe
<1>. QED  BY <1>1, SumInductive, PTL

(* A document is what the calls made of it one after the other, for any    *)
(* number of writers.                                                      *)
THEOREM EditsAlwaysAddUp == SumSpec => []EditsAddUp
<1>1. SumInv => EditsAddUp
  BY DEF SumInv, DocumentsInv, EditsAddUp
<1>. QED  BY <1>1, SumInductive, PTL

(* No step is left without its trace, and an account's turns age out its   *)
(* own traces only, for any number of turns and accounts.                  *)
THEOREM TracesAlwaysSafe == SumSpec => []TracesSafe
<1>1. SumInv => TracesSafe
  BY DEF SumInv, TracesInv, TracesSafe
<1>. QED  BY <1>1, SumInductive, PTL
=============================================================================
