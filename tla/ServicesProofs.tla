---------------------------- MODULE ServicesProofs ----------------------------
(***************************************************************************)
(* What opening the database promises, for every list of migrations of the *)
(* kinds the code has and any number of programs that start; what a        *)
(* recommendation promises, for any number of books, readers and requests; *)
(* and that the services keep their promises side by side.                 *)
(***************************************************************************)
EXTENDS MCServices, SessionsProofs, FrontDeskProofs, AssistantProofs,
        FiniteSetTheorems, SequenceTheorems, FunctionTheorems, TLAPS

----------------------------------------------------------------------------
(* Opening the database. *)

LEMMA ListLength == Len(Migrations) \in Nat /\ DOMAIN Migrations = 1..Len(Migrations)
<1>1. Migrations \in Seq(Migration)
  BY StartupAssumption
<1> QED  BY <1>1, LenProperties

LEMMA VersionNumbers ==
  Len(Migrations) \in Nat /\ ForDriver \subseteq 1..Len(Migrations) /\ ForDriver \subseteq Versions
<1>1. ForDriver \subseteq Versions
  BY DEF ForDriver
<1> QED  BY <1>1, ListLength DEF Versions

\* A migration is reached only over the ones before it, a record is written
\* only for what is built, and a program is surprised by a record only when
\* another one was starting meanwhile.
StartInv ==
  /\ StartupTypeOK
  /\ recorded \subseteq built
  /\ \A p \in Programs :
       /\ stage[p] \in {"record", "duplicate"} => version[p] \in built
       /\ stage[p] \in Starting => \A v \in ForDriver : v < version[p] => v \in built
       /\ stage[p] = "open" => ForDriver \subseteq built
       /\ stage[p] \in {"exec", "record"} /\ version[p] \in recorded => p \in clashed
       /\ stage[p] = "refused" => p \in clashed \/ version[p] \in repeated
  /\ \A p, q \in Programs : p # q /\ stage[p] \in Starting /\ stage[q] \in Starting => p \in clashed

\* The next migration is one for this driver, with none left out.
LEMMA OnwardsSteps ==
  ASSUME StartupTypeOK, NEW p \in Programs, NEW from \in 0..Len(Migrations), Onwards(p, from),
         \A v \in ForDriver : v <= from => v \in built
  PROVE  /\ stage' \in [Programs -> {"down", "open", "refused"} \cup Starting]
         /\ version' \in [Programs -> 1..(Len(Migrations) + 1)]
         /\ \A q \in Programs : q # p => stage'[q] = stage[q] /\ version'[q] = version[q]
         /\ stage'[p] \in {"look", "open"}
         /\ stage'[p] = "look" => /\ version'[p] \in ForDriver
                                  /\ \A v \in ForDriver : v < version'[p] => v \in built
         /\ stage'[p] = "open" => ForDriver \subseteq built
<1>1. Len(Migrations) \in Nat /\ DOMAIN Migrations = 1..Len(Migrations)
  BY ListLength
<1>2. ForDriver \subseteq 1..Len(Migrations)
  BY <1>1 DEF ForDriver, Versions
<1>3. PICK next \in {v \in ForDriver : v > from} \cup {Len(Migrations) + 1} :
        /\ \A v \in {w \in ForDriver : w > from} : next <= v
        /\ version' = [version EXCEPT ![p] = next]
        /\ stage' = [stage EXCEPT ![p] = IF next = Len(Migrations) + 1 THEN "open" ELSE "look"]
  BY DEF Onwards
<1>4. next \in 1..(Len(Migrations) + 1)
  BY <1>1, <1>2, <1>3
<1>5. \A v \in ForDriver : v < next => v \in built
  <2> SUFFICES ASSUME NEW v \in ForDriver, v < next  PROVE v \in built
    OBVIOUS
  <2>1. v \in Int /\ next \in Int /\ from \in Int
    BY <1>1, <1>2, <1>4
  <2>2. ~ (v > from)
    BY <1>3, <2>1
  <2> QED  BY <2>1, <2>2
<1>6. version'[p] = next /\ stage'[p] = (IF next = Len(Migrations) + 1 THEN "open" ELSE "look")
  BY <1>3 DEF StartupTypeOK
<1>7. stage'[p] = "look" => next \in ForDriver
  BY <1>3, <1>6
<1>8. stage'[p] = "open" => ForDriver \subseteq built
  BY <1>1, <1>2, <1>5, <1>6
<1>9. /\ stage' \in [Programs -> {"down", "open", "refused"} \cup Starting]
      /\ version' \in [Programs -> 1..(Len(Migrations) + 1)]
  <2>1. "open" \in {"down", "open", "refused"} \cup Starting /\ "look" \in {"down", "open", "refused"} \cup Starting
    BY DEF Starting
  <2>2. stage' \in [Programs -> {"down", "open", "refused"} \cup Starting]
    <3>1. stage \in [Programs -> {"down", "open", "refused"} \cup Starting]
      BY DEF StartupTypeOK
    <3> DEFINE S == {"down", "open", "refused"} \cup Starting
    <3> QED  BY <1>3, <2>1, <3>1
  <2>3. version' \in [Programs -> 1..(Len(Migrations) + 1)]
    BY <1>3, <1>4 DEF StartupTypeOK
  <2> QED  BY <2>2, <2>3
<1>10. \A q \in Programs : q # p => stage'[q] = stage[q] /\ version'[q] = version[q]
  BY <1>3 DEF StartupTypeOK
<1> QED  BY <1>5, <1>6, <1>7, <1>8, <1>9, <1>10

\* A migration whose predecessors are built finds the table it alters: it is
\* turned away for nothing but a duplicate structure, or rows that repeat.
LEMMA NeverRefused ==
  ASSUME StartupTypeOK, NEW v \in ForDriver, \A w \in ForDriver : w < v => w \in built
  PROVE  Refused(v) <=> v \in repeated
<1>1. v \in DOMAIN Migrations /\ v \in 1..Len(Migrations) /\ v \in Nat
  <2>1. v \in DOMAIN Migrations
    BY DEF ForDriver, Versions
  <2> QED  BY <2>1, ListLength
<1>2. /\ Migrations[v].on \in 0..(v - 1)
      /\ Migrations[v].on # 0 => Migrations[Migrations[v].on].driver = ""
      /\ Migrations[v].kind = "modify" => Migrations[v].driver = "mysql"
  BY <1>1, StartupAssumption
<1>3. ASSUME Migrations[v].on # 0  PROVE Migrations[v].on \in built
  <2>0. \A n \in 0..(v - 1) : n # 0 => n \in 1..Len(Migrations) /\ n < v
    BY <1>1, ListLength
  <2>1. PICK t \in 1..Len(Migrations) : t = Migrations[v].on /\ t < v
    BY <1>2, <1>3, <2>0
  <2>2. t \in DOMAIN Migrations /\ t < v
    BY <1>1, <2>1, ListLength
  <2>3. t \in ForDriver
    BY <1>2, <1>3, <2>1, <2>2 DEF ForDriver, Versions
  <2> QED  BY <2>1, <2>2, <2>3
<1>4. Migrations[v].kind = "modify" => driver # "sqlite"
  BY <1>2 DEF ForDriver
<1> QED  BY <1>3, <1>4 DEF Refused

LEMMA StartInvInit == StartupInit => StartInv
<1> SUFFICES ASSUME StartupInit  PROVE StartInv
  OBVIOUS
<1>1. Len(Migrations) \in Nat
  BY ListLength
<1>2. StartupTypeOK
  BY <1>1 DEF StartupInit, StartupTypeOK, Starting
<1> QED  BY <1>2 DEF StartupInit, StartInv, Starting

\* A step in which one program alone moves, over to what its own part of the
\* invariant says of it.
LEMMA ProgramMoves ==
  ASSUME StartInv, NEW p \in Programs,
         StartupTypeOK',
         UNCHANGED <<database, clashed>>,
         built \subseteq built',
         recorded' \subseteq recorded \cup {version[p]}, recorded' \subseteq built',
         \A q \in Programs : q # p => stage'[q] = stage[q] /\ version'[q] = version[q],
         recorded' # recorded => stage[p] \in Starting,
         stage'[p] \in Starting => stage[p] \in Starting,
         stage'[p] \in {"record", "duplicate"} => version'[p] \in built',
         stage'[p] \in Starting => \A v \in ForDriver : v < version'[p] => v \in built',
         stage'[p] = "open" => ForDriver \subseteq built',
         stage'[p] \in {"exec", "record"} /\ version'[p] \in recorded' => p \in clashed,
         stage'[p] = "refused" => p \in clashed \/ version'[p] \in repeated
  PROVE  StartInv'
<1>1. ForDriver' = ForDriver /\ repeated' = repeated
  BY DEF ForDriver, Versions, database
<1>2. \A q \in Programs : q # p /\ stage[q] \in {"exec", "record"} /\ version[q] \in recorded'
                          => q \in clashed
  BY DEF StartInv, Starting
<1>3. \A q \in Programs :
        /\ stage'[q] \in {"record", "duplicate"} => version'[q] \in built'
        /\ stage'[q] \in Starting => \A v \in ForDriver : v < version'[q] => v \in built'
        /\ stage'[q] = "open" => ForDriver \subseteq built'
        /\ stage'[q] \in {"exec", "record"} /\ version'[q] \in recorded' => q \in clashed'
        /\ stage'[q] = "refused" => q \in clashed' \/ version'[q] \in repeated'
  <2> TAKE q \in Programs
  <2>1. CASE q = p
    BY <1>1, <2>1
  <2>2. CASE q # p
    BY <1>1, <1>2, <2>2 DEF StartInv
  <2> QED  BY <2>1, <2>2
<1>4. \A q, r \in Programs : q # r /\ stage'[q] \in Starting /\ stage'[r] \in Starting => q \in clashed'
  BY DEF StartInv
<1> QED  BY <1>1, <1>3, <1>4 DEF StartInv, Starting

LEMMA StartInvNext == StartInv /\ [StartupNext]_startupVars => StartInv'
<1> SUFFICES ASSUME StartInv, [StartupNext]_startupVars
             PROVE  StartInv'
  OBVIOUS
<1>1. StartupTypeOK
  BY DEF StartInv
<1>2. ForDriver' = ForDriver /\ UNCHANGED <<driver, repeated>>
  BY DEF StartupNext, startupVars, database, createSchema, Look, Exec, recordMigration,
         RecordDuplicate, Stop, ForDriver, Versions
<1>3. \A p \in Programs, next \in {"down", "refused", "exec", "record", "duplicate"} :
        To(p, next) => /\ stage' \in [Programs -> {"down", "open", "refused"} \cup Starting]
                       /\ version' = version
                       /\ \A q \in Programs : q # p => stage'[q] = stage[q]
                       /\ stage'[p] = next
  BY <1>1 DEF To, StartupTypeOK, Starting
<1>4. ASSUME NEW p \in Programs, stage[p] \in Starting
      PROVE  /\ version[p] \in 0..Len(Migrations) /\ version[p] \in ForDriver
             /\ version[p] \in Versions
             /\ \A v \in ForDriver : v < version[p] => v \in built
  <2>1. version[p] \in ForDriver
    BY <1>1, <1>4 DEF StartupTypeOK
  <2>2. \A v \in ForDriver : v < version[p] => v \in built
    BY <1>4 DEF StartInv
  <2>3. \A v \in 1..Len(Migrations) : v \in 0..Len(Migrations)
    BY VersionNumbers
  <2>4. version[p] \in 1..Len(Migrations) /\ version[p] \in Versions
    BY <2>1, VersionNumbers
  <2> QED  BY <2>1, <2>2, <2>3, <2>4
<1>5. ASSUME NEW p \in Programs, createSchema(p)
      PROVE  StartInv'
  <2>1. /\ built \subseteq built' /\ built' \subseteq Versions
        /\ driver' = driver /\ recorded' = recorded /\ Onwards(p, 0)
    BY <1>1, <1>5 DEF createSchema, database, StartupTypeOK
  <2>2. stage[p] \notin Starting
    BY <1>5 DEF createSchema, Starting
  <2>3. 0 \in 0..Len(Migrations) /\ \A v \in ForDriver : ~ (v <= 0)
    BY VersionNumbers
  <2>4. /\ stage' \in [Programs -> {"down", "open", "refused"} \cup Starting]
        /\ version' \in [Programs -> 1..(Len(Migrations) + 1)]
        /\ \A q \in Programs : q # p => stage'[q] = stage[q] /\ version'[q] = version[q]
        /\ stage'[p] \in {"look", "open"}
        /\ stage'[p] = "look" => /\ version'[p] \in ForDriver
                                 /\ \A v \in ForDriver : v < version'[p] => v \in built
        /\ stage'[p] = "open" => ForDriver \subseteq built
    BY <1>1, <2>1, <2>3, OnwardsSteps
  <2>5. /\ clashed' \subseteq Programs
        /\ \A q \in Programs \ {p} : q \in clashed => q \in clashed'
        /\ (\E q \in Programs \ {p} : stage[q] \in Starting) =>
             p \in clashed' /\ \A q \in Programs \ {p} : stage[q] \in Starting => q \in clashed'
    BY <1>1, <1>5 DEF createSchema, StartupTypeOK
  <2>6. StartupTypeOK'
    BY <1>1, <1>2, <2>1, <2>4, <2>5 DEF StartupTypeOK, Starting, Versions
  <2>7. \A q \in Programs :
          /\ stage'[q] \in {"record", "duplicate"} => version'[q] \in built'
          /\ stage'[q] \in Starting => \A v \in ForDriver : v < version'[q] => v \in built'
          /\ stage'[q] = "open" => ForDriver \subseteq built'
          /\ stage'[q] \in {"exec", "record"} /\ version'[q] \in recorded' => q \in clashed'
          /\ stage'[q] = "refused" => q \in clashed' \/ version'[q] \in repeated'
    <3> TAKE q \in Programs
    <3>1. CASE q = p
      BY <2>1, <2>4, <3>1 DEF Starting
    <3>2. CASE q # p
      BY <1>2, <2>1, <2>4, <2>5, <3>2 DEF StartInv
    <3> QED  BY <3>1, <3>2
  <2>8. \A q, r \in Programs : q # r /\ stage'[q] \in Starting /\ stage'[r] \in Starting => q \in clashed'
    <3> SUFFICES ASSUME NEW q \in Programs, NEW r \in Programs, q # r,
                        stage'[q] \in Starting, stage'[r] \in Starting
                 PROVE  q \in clashed'
      OBVIOUS
    <3>1. CASE q = p \/ r = p
      BY <2>4, <2>5, <3>1
    <3>2. CASE q # p /\ r # p
      BY <2>4, <2>5, <3>2 DEF StartInv
    <3> QED  BY <3>1, <3>2
  <2>9. recorded' \subseteq built'
    BY <2>1 DEF StartInv
  <2> QED  BY <1>2, <2>6, <2>7, <2>8, <2>9 DEF StartInv, Starting
<1>6. ASSUME NEW p \in Programs, Look(p)
      PROVE  StartInv'
  <2>1. stage[p] = "look" /\ stage[p] \in Starting
    BY <1>6 DEF Look, Starting
  <2>2. UNCHANGED <<database, built, recorded, clashed>>
    BY <1>6 DEF Look
  <2>3. CASE version[p] \in recorded /\ Onwards(p, version[p])
    <3>1. \A v \in ForDriver : v <= version[p] => v \in built
      BY <1>4, <2>1, <2>3, VersionNumbers DEF StartInv
    <3>2. /\ stage' \in [Programs -> {"down", "open", "refused"} \cup Starting]
          /\ version' \in [Programs -> 1..(Len(Migrations) + 1)]
          /\ \A q \in Programs : q # p => stage'[q] = stage[q] /\ version'[q] = version[q]
          /\ stage'[p] \in {"look", "open"}
          /\ stage'[p] = "look" => /\ version'[p] \in ForDriver
                                   /\ \A v \in ForDriver : v < version'[p] => v \in built
          /\ stage'[p] = "open" => ForDriver \subseteq built
      BY <1>1, <1>4, <2>1, <2>3, <3>1, OnwardsSteps
    <3>3. StartupTypeOK'
      BY <1>1, <1>2, <2>2, <3>2 DEF StartupTypeOK, Starting, Versions
    <3> QED  BY <2>1, <2>2, <3>2, <3>3, ProgramMoves DEF StartInv, Starting
  <2>4. CASE version[p] \notin recorded /\ To(p, "exec")
    <3>1. StartupTypeOK'
      BY <1>1, <1>2, <1>3, <1>4, <2>1, <2>2, <2>4 DEF StartupTypeOK, Starting, Versions
    <3> QED  BY <1>3, <1>4, <2>1, <2>2, <2>4, <3>1, ProgramMoves DEF StartInv, Starting
  <2> QED  BY <1>6, <2>3, <2>4 DEF Look
<1>7. ASSUME NEW p \in Programs, Exec(p)
      PROVE  StartInv'
  <2>1. stage[p] = "exec" /\ stage[p] \in Starting
    BY <1>7 DEF Exec, Starting
  <2>2. Refused(version[p]) <=> version[p] \in repeated
    BY <1>1, <1>4, <2>1, NeverRefused
  <2>3. UNCHANGED <<database, recorded, clashed>>
    BY <1>7 DEF Exec
  <2>4. CASE ~ Refused(version[p])
    <3>1. built' = built \cup {version[p]} /\ (To(p, "duplicate") \/ To(p, "record"))
      BY <1>7, <2>4 DEF Exec
    <3>2. StartupTypeOK'
      BY <1>1, <1>2, <1>3, <1>4, <2>1, <2>3, <3>1 DEF StartupTypeOK, Starting, Versions
    <3>3. stage'[p] \in {"duplicate", "record"} /\ version' = version
          /\ \A q \in Programs : q # p => stage'[q] = stage[q]
      BY <1>3, <3>1
    <3> QED  BY <1>4, <2>1, <2>3, <3>1, <3>2, <3>3, ProgramMoves DEF StartInv, Starting
  <2>5. CASE Refused(version[p])
    <3>1. UNCHANGED built /\ To(p, "refused")
      BY <1>7, <2>5 DEF Exec
    <3>2. StartupTypeOK'
      BY <1>1, <1>2, <1>3, <1>4, <2>1, <2>3, <3>1 DEF StartupTypeOK, Starting, Versions
    <3>3. stage'[p] = "refused" /\ version' = version
          /\ \A q \in Programs : q # p => stage'[q] = stage[q]
      BY <1>3, <3>1
    <3>4. version'[p] \in repeated
      BY <2>2, <2>5, <3>3
    <3> QED  BY <2>1, <2>3, <3>1, <3>2, <3>3, <3>4, ProgramMoves DEF StartInv, Starting
  <2> QED  BY <2>4, <2>5
<1>8. ASSUME NEW p \in Programs, recordMigration(p)
      PROVE  StartInv'
  <2>1. stage[p] = "record" /\ stage[p] \in Starting
    BY <1>8 DEF recordMigration, Starting
  <2>2. UNCHANGED <<database, built, clashed>> /\ recorded' = recorded \cup {version[p]}
    BY <1>8 DEF recordMigration
  <2>3. version[p] \in built
    BY <2>1 DEF StartInv
  <2>4. CASE version[p] \in recorded /\ To(p, "refused")
    <3>1. StartupTypeOK'
      BY <1>1, <1>2, <1>3, <1>4, <2>1, <2>2, <2>4 DEF StartupTypeOK, Starting, Versions
    <3> QED  BY <1>3, <2>1, <2>2, <2>3, <2>4, <3>1, ProgramMoves DEF StartInv, Starting
  <2>5. CASE version[p] \notin recorded /\ Onwards(p, version[p])
    <3>1. \A v \in ForDriver : v <= version[p] => v \in built
      BY <1>4, <2>1, <2>3, VersionNumbers
    <3>2. /\ stage' \in [Programs -> {"down", "open", "refused"} \cup Starting]
          /\ version' \in [Programs -> 1..(Len(Migrations) + 1)]
          /\ \A q \in Programs : q # p => stage'[q] = stage[q] /\ version'[q] = version[q]
          /\ stage'[p] \in {"look", "open"}
          /\ stage'[p] = "look" => /\ version'[p] \in ForDriver
                                   /\ \A v \in ForDriver : v < version'[p] => v \in built
          /\ stage'[p] = "open" => ForDriver \subseteq built
      BY <1>1, <1>4, <2>1, <3>1, <2>5, OnwardsSteps
    <3>3. StartupTypeOK'
      BY <1>1, <1>2, <1>4, <2>1, <2>2, <3>2 DEF StartupTypeOK, Starting, Versions
    <3> QED  BY <2>1, <2>2, <2>3, <3>2, <3>3, ProgramMoves DEF StartInv, Starting
  <2> QED  BY <1>8, <2>4, <2>5 DEF recordMigration
<1>9. ASSUME NEW p \in Programs, RecordDuplicate(p)
      PROVE  StartInv'
  <2>1. stage[p] = "duplicate" /\ stage[p] \in Starting
    BY <1>9 DEF RecordDuplicate, Starting
  <2>2. /\ UNCHANGED <<database, built, clashed>> /\ Onwards(p, version[p])
        /\ recorded \subseteq recorded' /\ recorded' \subseteq recorded \cup {version[p]}
    BY <1>9 DEF RecordDuplicate
  <2>3. version[p] \in built
    BY <2>1 DEF StartInv
  <2>4. \A v \in ForDriver : v <= version[p] => v \in built
    BY <1>4, <2>1, <2>3, VersionNumbers
  <2>5. /\ stage' \in [Programs -> {"down", "open", "refused"} \cup Starting]
        /\ version' \in [Programs -> 1..(Len(Migrations) + 1)]
        /\ \A q \in Programs : q # p => stage'[q] = stage[q] /\ version'[q] = version[q]
        /\ stage'[p] \in {"look", "open"}
        /\ stage'[p] = "look" => /\ version'[p] \in ForDriver
                                 /\ \A v \in ForDriver : v < version'[p] => v \in built
        /\ stage'[p] = "open" => ForDriver \subseteq built
    BY <1>1, <1>4, <2>1, <2>2, <2>4, OnwardsSteps
  <2>6. StartupTypeOK'
    BY <1>1, <1>2, <1>4, <2>1, <2>2, <2>5 DEF StartupTypeOK, Starting, Versions
  <2> QED  BY <2>1, <2>2, <2>3, <2>5, <2>6, ProgramMoves DEF StartInv, Starting
<1>10. ASSUME NEW p \in Programs, Stop(p)
       PROVE  StartInv'
  <2>1. UNCHANGED <<database, clashed>> /\ To(p, "down")
    BY <1>10 DEF Stop
  <2>2. /\ built \subseteq built' /\ recorded \subseteq recorded'
        /\ built' # built => stage[p] = "exec" /\ built' = built \cup {version[p]}
        /\ recorded' # recorded => /\ stage[p] = "record" /\ recorded' = recorded \cup {version[p]}
                                   /\ built' = built
    BY <1>10 DEF Stop
  <2>3. recorded' \subseteq built'
    BY <2>2 DEF StartInv
  <2>4. StartupTypeOK'
    BY <1>1, <1>2, <1>3, <1>4, <2>1, <2>2 DEF StartupTypeOK, Starting, Versions
  <2>5. stage'[p] = "down" /\ version' = version /\ \A q \in Programs : q # p => stage'[q] = stage[q]
    BY <1>3, <2>1
  <2> QED  BY <2>1, <2>2, <2>3, <2>4, <2>5, ProgramMoves DEF Starting
<1>11. CASE UNCHANGED startupVars
  BY <1>2, <1>11 DEF startupVars, database, StartInv, StartupTypeOK, Starting, Versions
<1> QED  BY <1>5, <1>6, <1>7, <1>8, <1>9, <1>10, <1>11 DEF StartupNext

LEMMA StartInvariance == StartupSpec => []StartInv
<1> QED  BY StartInvInit, StartInvNext, PTL DEF StartupSpec

\* The variables keep to their values, in particular a program works only on
\* migrations for the database it has opened.
THEOREM StartupTypeCorrect == StartupSpec => []StartupTypeOK
<1>1. StartInv => StartupTypeOK
  BY DEF StartInv
<1> QED  BY <1>1, StartInvariance, PTL

\* However often starts are cut short, repeated or overlap, and whatever an
\* older database already had: an open database has every structure of its
\* driver, and a start is turned away only by another one at the same time or
\* by a row that repeats in the table of a unique index.
THEOREM StartsEndComplete == StartupSpec => []StartsComplete
<1>1. StartInv => StartsComplete
  BY DEF StartInv, StartsComplete
<1> QED  BY <1>1, StartInvariance, PTL

----------------------------------------------------------------------------
(* Sums and scores are numbers. *)

LEMMA TotalIsNat ==
  ASSUME NEW f, IsFiniteSet(DOMAIN f), \A x \in DOMAIN f : f[x] \in Int
  PROVE  Total(f) \in Nat
<1> DEFINE T == {{x} \X (1..f[x]) : x \in DOMAIN f}
           g == [x \in DOMAIN f |-> {x} \X (1..f[x])]
<1>1. g \in Surjection(DOMAIN f, T)
  BY DEF Surjection
<1>2. IsFiniteSet(T)
  BY <1>1, FS_Surjection
<1>3. \A x \in DOMAIN f : IsFiniteSet({x} \X (1..f[x]))
  <2> TAKE x \in DOMAIN f
  <2>1. PICK n \in Int : n = f[x]
    OBVIOUS
  <2>2. IsFiniteSet({x}) /\ IsFiniteSet(1..n)
    <3>1. 1 \in Int
      OBVIOUS
    <3> QED  BY <2>1, <3>1, FS_Singleton, FS_Interval
  <2>3. IsFiniteSet({x} \X (1..n))
    BY <2>2, FS_Product
  <2> QED  BY <2>1, <2>3
<1>4. \A t \in T : IsFiniteSet(t)
  BY <1>3
<1>5. IsFiniteSet(UNION T)
  BY <1>2, <1>4, FS_UNION
<1> QED  BY <1>5, FS_CardinalityType DEF Total

LEMMA BooksFinite ==
  /\ IsFiniteSet(Biblios) /\ Biblios \subseteq Nat
  /\ \A S : S \subseteq Biblios => IsFiniteSet(S) /\ Cardinality(S) \in Nat
<1>1. IsFiniteSet(Biblios) /\ Biblios = 1..Cardinality(Biblios) /\ Cardinality(Biblios) \in Nat
  BY RecommendAssumption, FS_CardinalityType
<1> QED  BY <1>1, FS_Subset, FS_CardinalityType

LEMMA InterestIsNat ==
  ASSUME NEW k, NEW mine, mine \subseteq Biblios, NEW taste
  PROVE  Interest(k, mine, taste) \in Nat
<1>1. \A S : S \subseteq mine => Cardinality(S) \in Nat
  BY BooksFinite
<1>2. PICK m \in Nat : m = Cardinality({b \in mine : k \in Subjects[b]})
  BY <1>1
<1>3. PICK n \in Nat : n = Cardinality({b \in mine : k = Author[b] /\ k # ""})
  BY <1>1
<1>4. m + n + (IF k \in taste THEN 3 ELSE 0) \in Nat
  OBVIOUS
<1> QED  BY <1>2, <1>3, <1>4 DEF Interest

LEMMA ScoreIsInt ==
  ASSUME NEW b \in Biblios, NEW r, r.mine \subseteq Biblios, NEW available
  PROVE  Score(b, r, available) \in Int
<1>1. PICK mine, taste, all : mine = r.mine /\ taste = r.taste /\ all = r.all
  OBVIOUS
<1>2. Total([k \in Subjects[b] |-> Interest(k, mine, taste)]) \in Nat
  <2>1. IsFiniteSet(Subjects[b])
    BY RecommendAssumption
  <2>2. \A k \in Subjects[b] : Interest(k, mine, taste) \in Nat
    BY <1>1, InterestIsNat
  <2> QED  BY <2>1, <2>2, TotalIsNat
<1>3. Interest(Author[b], mine, taste) \in Nat
  BY <1>1, InterestIsNat
<1>4. IsFiniteSet(Peers(b, mine, all))
  <2>1. Peers(b, mine, all) \subseteq Patrons
    BY DEF Peers
  <2> QED  BY <2>1, RecommendAssumption, FS_Subset
<1>5. coScore(b, mine, all) \in Nat
  BY <1>4, FS_CardinalityType DEF coScore
<1>6. simScore(b, mine, all) \in Nat
  <2> DEFINE theirs(p) == {c \in Biblios : <<p, c>> \in all}
             f == [p \in Peers(b, mine, all) |-> Similarity(mine, theirs(p))]
  <2>1. ASSUME NEW p \in Peers(b, mine, all)
        PROVE  Similarity(mine, theirs(p)) \in Int
    <3>1. mine \subseteq Biblios /\ theirs(p) \subseteq Biblios
      BY <1>1
    <3>2. PICK c \in mine : <<p, c>> \in all
      BY DEF Peers
    <3>3. c \in mine \cup theirs(p)
      BY <3>2
    <3> HIDE DEF theirs
    <3>4. /\ mine \cap theirs(p) \subseteq Biblios
          /\ mine \cup theirs(p) \subseteq Biblios /\ mine \cup theirs(p) # {}
      BY <3>1, <3>3
    <3>5. PICK m, n : m = Cardinality(mine \cap theirs(p)) /\ n = Cardinality(mine \cup theirs(p))
      OBVIOUS
    <3>6. m \in Nat /\ n \in Nat /\ n # 0
      BY <3>4, <3>5, BooksFinite, FS_EmptySet
    <3>7. (20 * m) \div n \in Int
      BY <3>6
    <3> QED  BY <3>5, <3>7 DEF Similarity
  <2>2. Total(f) \in Nat
    <3>1. DOMAIN f = Peers(b, mine, all) /\ \A p \in DOMAIN f : f[p] \in Int
      BY <2>1
    <3> HIDE DEF f
    <3> QED  BY <1>4, <3>1, TotalIsNat
  <2> QED  BY <2>2 DEF simScore
<1>7. PICK s \in Nat : s = Total([k \in Subjects[b] |-> Interest(k, mine, taste)])
  BY <1>2
<1>8. PICK w \in Nat, u \in Nat, v \in Nat :
        /\ w = Interest(Author[b], mine, taste)
        /\ u = simScore(b, mine, all) /\ v = coScore(b, mine, all)
  BY <1>3, <1>5, <1>6
<1>9. s + (IF Author[b] = "" THEN 0 ELSE 2 * w) + 2 * u + v
        + (IF b \in available THEN 2 ELSE 0) \in Int
  <2>1. PICK w2 \in Int : w2 = 2 * w
    OBVIOUS
  <2>2. PICK e \in Int : e = IF Author[b] = "" THEN 0 ELSE w2
    <3>1. 0 \in Int
      OBVIOUS
    <3>2. (IF Author[b] = "" THEN 0 ELSE w2) \in Int
      BY <3>1, Zenon
    <3> QED  BY <3>1, <3>2
  <2>3. PICK f \in Int : f = IF b \in available THEN 2 ELSE 0
    OBVIOUS
  <2>4. s + e + 2 * u + v + f \in Int
    OBVIOUS
  <2> QED  BY <2>1, <2>2, <2>3, <2>4, Zenon
<1> QED  BY <1>1, <1>7, <1>8, <1>9 DEF Score

----------------------------------------------------------------------------
(* Lists. *)

Entry(books) == [book: books, score: Int, hot: BOOLEAN]

Descending(list) ==
  \A i, j \in DOMAIN list : i < j =>
    /\ list[i].book # list[j].book
    /\ list[i].hot => list[j].hot
    /\ list[i].hot = list[j].hot => list[i].score >= list[j].score

Listing(list, books) == list \in Seq(Entry(books)) /\ Descending(list)

AllHot(list, hot) == \A i \in DOMAIN list : list[i].hot = hot

\* Each place of the order is taken by one book.
LEMMA PlacesTaken ==
  ASSUME NEW books, books \subseteq Biblios, NEW points, \A b \in books : points[b] \in Int
  PROVE  /\ Cardinality(books) \in Nat
         /\ \A i \in 1..Cardinality(books) : \E b \in books : Place(b, books, points) = i
         /\ \A b \in books : Place(b, books, points) \in Nat
         /\ \A b, c \in books : Place(b, books, points) < Place(c, books, points) =>
              b # c /\ points[b] >= points[c]
<1> DEFINE Ahead(b) == {c \in books : Before(c, b, points)}
           n == Cardinality(books)
           rank == [b \in books |-> Place(b, books, points)]
<1>1. \A b \in books : b \in Nat
  BY BooksFinite
<1>2. n \in Nat /\ IsFiniteSet(books)
  BY BooksFinite
<1>3. \A b \in books : Ahead(b) \subseteq books /\ IsFiniteSet(Ahead(b)) /\ Cardinality(Ahead(b)) \in Nat
  BY BooksFinite
<1>4. \A b \in books : Place(b, books, points) = Cardinality(Ahead(b)) + 1
  BY DEF Place
<1>5. \A b, c \in books : b # c => Before(b, c, points) \/ Before(c, b, points)
  BY <1>1 DEF Before
<1>6. \A b \in books : ~ Before(b, b, points)
  BY <1>1 DEF Before
<1>7. \A a, b, c \in books : Before(a, b, points) /\ Before(b, c, points) => Before(a, c, points)
  BY <1>1 DEF Before
<1>8. ASSUME NEW b \in books, NEW c \in books, Before(b, c, points)
      PROVE  Place(b, books, points) < Place(c, books, points)
  <2>1. Ahead(b) \subseteq Ahead(c)
    BY <1>7, <1>8
  <2>2. b \in Ahead(c) /\ b \notin Ahead(b)
    BY <1>6, <1>8
  <2> HIDE DEF Ahead
  <2>3. Cardinality(Ahead(b)) <= Cardinality(Ahead(c)) /\ Cardinality(Ahead(b)) # Cardinality(Ahead(c))
    BY <1>3, <2>1, <2>2, FS_Subset
  <2> QED  BY <1>3, <1>4, <2>3
<1>9. ASSUME NEW b \in books
      PROVE  Place(b, books, points) \in 1..n
  <2>1. Ahead(b) \subseteq books /\ b \notin Ahead(b)
    BY <1>6
  <2> HIDE DEF Ahead
  <2>2. Cardinality(Ahead(b)) <= n /\ Cardinality(Ahead(b)) # n
    BY <1>2, <2>1, FS_Subset
  <2> QED  BY <1>2, <1>3, <1>4, <2>2
<1> HIDE DEF Ahead
<1>10. \A b, c \in books : b # c => Place(b, books, points) # Place(c, books, points)
  BY <1>2, <1>5, <1>8, <1>9
<1>11. rank \in Injection(books, 1..n)
  BY <1>9, <1>10 DEF Injection, IsInjective
<1>12. IsFiniteSet(1..n) /\ Cardinality(1..n) = n
  BY <1>2, FS_Interval
<1>13. rank \in Surjection(books, 1..n)
  BY <1>11, <1>12, FS_Injection
<1>14. \A i \in 1..n : \E b \in books : Place(b, books, points) = i
  BY <1>13 DEF Surjection
<1>15. \A b, c \in books : Place(b, books, points) < Place(c, books, points) =>
         b # c /\ Before(b, c, points)
  BY <1>2, <1>5, <1>8, <1>9
<1>16. \A b, c \in books : Before(b, c, points) => points[b] >= points[c]
  BY DEF Before
<1> QED  BY <1>2, <1>9, <1>14, <1>15, <1>16

LEMMA OrderLists ==
  ASSUME NEW books, books \subseteq Biblios, NEW points, \A b \in books : points[b] \in Int,
         NEW hot \in BOOLEAN, NEW list, list = InOrder(books, points, hot)
  PROVE  Listing(list, books) /\ AllHot(list, hot)
<1> DEFINE n == Cardinality(books)
           at(i) == CHOOSE b \in books : Place(b, books, points) = i
<1>1. n \in Nat /\ \A i \in 1..n : at(i) \in books /\ Place(at(i), books, points) = i
  BY PlacesTaken
<1>2. list = [i \in 1..n |-> [book |-> at(i), score |-> points[at(i)], hot |-> hot]]
  BY DEF InOrder
<1> HIDE DEF at
<1>3. /\ DOMAIN list = 1..n
      /\ \A i \in 1..n : /\ list[i] \in Entry(books)
                         /\ list[i].book = at(i) /\ list[i].score = points[at(i)] /\ list[i].hot = hot
  BY <1>1, <1>2 DEF Entry
<1>4. list \in Seq(Entry(books))
  BY <1>1, <1>2, <1>3
<1>5. ASSUME NEW i \in 1..n, NEW j \in 1..n, i < j
      PROVE  at(i) # at(j) /\ points[at(i)] >= points[at(j)]
  <2>1. PICK b \in books, c \in books : b = at(i) /\ c = at(j)
    BY <1>1
  <2>2. Place(b, books, points) < Place(c, books, points)
    BY <1>1, <1>5, <2>1
  <2> QED  BY <2>1, <2>2, PlacesTaken
<1>6. Descending(list)
  BY <1>3, <1>5 DEF Descending
<1> QED  BY <1>3, <1>4, <1>6 DEF Listing, AllHot

LEMMA ListsWiden ==
  ASSUME NEW A, NEW B, A \subseteq B, NEW s \in Seq(A)
  PROVE  s \in Seq(B)
<1>1. Len(s) \in Nat /\ DOMAIN s = 1..Len(s) /\ s = [i \in 1..Len(s) |-> s[i]]
  BY LenProperties
<1>2. \A i \in 1..Len(s) : s[i] \in B
  BY <1>1, ElementOfSeq
<1> QED  BY <1>1, <1>2

LEMMA PrefixLists ==
  ASSUME NEW list, NEW books, Listing(list, books), NEW m \in Nat, m <= Len(list),
         NEW s, s = SubSeq(list, 1, m)
  PROVE  /\ Listing(s, books) /\ Len(s) = m
         /\ \A hot : AllHot(list, hot) => AllHot(s, hot)
<1>1. list \in Seq(Entry(books)) /\ DOMAIN list = 1..Len(list) /\ Len(list) \in Nat
  BY DEF Listing
<1>2. /\ s \in Seq(Entry(books)) /\ Len(s) = m /\ DOMAIN s = 1..m
      /\ \A i \in 1..m : s[i] = list[i] /\ i \in DOMAIN list
  BY <1>1
<1>3. Descending(s)
  BY <1>2 DEF Descending, Listing
<1> QED  BY <1>2, <1>3 DEF Listing, AllHot

\* What suits the reader, and behind it what others borrow.
LEMMA BehindLists ==
  ASSUME NEW list, NEW books, Listing(list, books), AllHot(list, FALSE),
         NEW more, NEW others, Listing(more, others), AllHot(more, TRUE),
         others \subseteq books, others \cap BooksOf(list) = {}, NEW n \in Nat,
         NEW s, s = Behind(list, n, more)
  PROVE  Listing(s, books) /\ Len(s) <= Len(list) + n
<1>0. PICK m \in Nat : m = (IF n < Len(more) THEN n ELSE Len(more)) /\ m <= Len(more) /\ m <= n
  BY DEF Listing
<1>1. PICK t : t = SubSeq(more, 1, m)
  OBVIOUS
<1>2. Listing(t, others) /\ Len(t) = m /\ AllHot(t, TRUE)
  BY <1>0, <1>1, PrefixLists
<1>3. s = list \o t
  BY <1>0, <1>1 DEF Behind
<1>4. /\ list \in Seq(Entry(books)) /\ Len(list) \in Nat /\ DOMAIN list = 1..Len(list)
      /\ t \in Seq(Entry(others)) /\ Len(t) \in Nat /\ DOMAIN t = 1..Len(t)
  BY <1>2 DEF Listing
<1>5. t \in Seq(Entry(books))
  <2>1. Entry(others) \subseteq Entry(books)
    BY DEF Entry
  <2> QED  BY <1>4, <2>1
<1>6. /\ s \in Seq(Entry(books)) /\ Len(s) = Len(list) + Len(t) /\ DOMAIN s = 1..(Len(list) + Len(t))
      /\ \A i \in 1..(Len(list) + Len(t)) :
           s[i] = IF i <= Len(list) THEN list[i] ELSE t[i - Len(list)]
  BY <1>3, <1>4, <1>5, ConcatProperties
<1>7. \A i \in DOMAIN s :
        \/ i \in DOMAIN list /\ s[i] = list[i]
        \/ i > Len(list) /\ i - Len(list) \in DOMAIN t /\ s[i] = t[i - Len(list)]
  BY <1>4, <1>6
<1>8. ASSUME NEW i \in DOMAIN s, NEW j \in DOMAIN s, i < j
      PROVE  /\ s[i].book # s[j].book
             /\ s[i].hot => s[j].hot
             /\ s[i].hot = s[j].hot => s[i].score >= s[j].score
  <2>1. CASE i \in DOMAIN list /\ s[i] = list[i] /\ j \in DOMAIN list /\ s[j] = list[j]
    BY <1>8, <2>1 DEF Listing, Descending
  <2>2. CASE /\ i \in DOMAIN list /\ s[i] = list[i]
             /\ j - Len(list) \in DOMAIN t /\ s[j] = t[j - Len(list)]
    <3>1. s[i].hot = FALSE /\ s[j].hot = TRUE
      BY <1>2, <2>2 DEF AllHot
    <3>2. s[i].book \in BooksOf(list)
      BY <2>2 DEF BooksOf
    <3>3. t[j - Len(list)] \in Entry(others)
      BY <1>4, <2>2
    <3>4. s[j].book \in others
      BY <2>2, <3>3 DEF Entry
    <3> QED  BY <3>1, <3>2, <3>4
  <2>3. CASE /\ i - Len(list) \in DOMAIN t /\ s[i] = t[i - Len(list)]
             /\ j - Len(list) \in DOMAIN t /\ s[j] = t[j - Len(list)]
    <3>1. i - Len(list) < j - Len(list)
      BY <1>4, <1>6, <1>8
    <3> QED  BY <1>2, <2>3, <3>1 DEF Listing, Descending
  <2>4. ~ (i > Len(list) /\ j \in DOMAIN list)
    BY <1>4, <1>6, <1>8
  <2> QED  BY <1>7, <2>1, <2>2, <2>3, <2>4
<1> QED  BY <1>0, <1>2, <1>4, <1>6, <1>8 DEF Listing, Descending

----------------------------------------------------------------------------
(* A list that leaves out what the request knows of the reader; what the    *)
(* request knows has all that was borrowed before the question, for rows of *)
(* the history are never taken away.                                        *)

Question ==
  [op: {"recommend"}, taste: Tastes, limit: 1..20, had: SUBSET Biblios, blind: BOOLEAN,
   mine: SUBSET Biblios, all: SUBSET (Patrons \X Biblios), list: Seq(Entry(Biblios))]

RecommendLabels == {"idle", "history", "signals", "books", "counts", "hot", "recommended"}

\* What a request holds at a statement.
KnownOK(label, r) ==
  /\ r \in Question
  /\ label = "history" => r.had \subseteq ReadBy(Reader)
  /\ label # "history" /\ ~ r.blind => r.had \subseteq r.mine
  /\ label = "hot" => /\ Listing(r.list, Biblios \ r.mine) /\ AllHot(r.list, FALSE)
                      /\ Len(r.list) < r.limit
  /\ label = "recommended" => Listing(r.list, Biblios \ r.mine) /\ Len(r.list) <= r.limit

FreshInv ==
  /\ RecommendTypeOK
  /\ IsFiniteSet(reading)
  /\ req = [h \in Handlers |-> req[h]]
  /\ \A h \in Handlers : pc[h] # "idle" => KnownOK(pc[h], req[h])

\* A request at its next statement; the books as they were.
LEMMA Goes ==
  ASSUME FreshInv, NEW h \in Handlers, NEW label \in RecommendLabels, NEW r, Goto(h, label, r),
         UNCHANGED <<reading, shelf>>, label # "idle" => KnownOK(label, r)
  PROVE  FreshInv'
<1>1. /\ pc \in [Handlers -> RecommendLabels] /\ req = [g \in Handlers |-> req[g]]
      /\ pc' = [pc EXCEPT ![h] = label] /\ req' = [req EXCEPT ![h] = r]
      /\ reading' = reading /\ shelf' = shelf
  BY DEF FreshInv, RecommendTypeOK, Goto, RecommendLabels
<1>2. /\ pc' \in [Handlers -> RecommendLabels] /\ pc'[h] = label /\ req'[h] = r
      /\ req' = [g \in Handlers |-> req'[g]]
      /\ \A g \in Handlers \ {h} : pc'[g] = pc[g] /\ req'[g] = req[g]
  BY <1>1
<1>3. RecommendTypeOK' /\ IsFiniteSet(reading)'
  BY <1>1, <1>2 DEF FreshInv, RecommendTypeOK, RecommendLabels
<1>4. ASSUME NEW g \in Handlers, pc'[g] # "idle"
      PROVE  KnownOK(pc[g], req[g])'
  <2>1. KnownOK(pc'[g], req'[g])
    <3>1. CASE g = h
      BY <1>2, <1>4, <3>1
    <3>2. CASE g # h
      BY <1>2, <1>4, <3>2 DEF FreshInv
    <3> QED  BY <3>1, <3>2
  <2>2. ReadBy(Reader)' = ReadBy(Reader)
    BY <1>1 DEF ReadBy
  <2> QED  BY <2>1, <2>2 DEF KnownOK
<1> QED  BY <1>2, <1>3, <1>4 DEF FreshInv

LEMMA Unanswered == ASSUME FreshInv, NEW h \in Handlers, Finish(h), UNCHANGED <<reading, shelf>>
                    PROVE  FreshInv'
BY Goes DEF Finish, RecommendLabels

LEMMA AskedOK ==
  ASSUME FreshInv, NEW h \in Handlers, NEW taste \in Tastes, NEW limit \in Limits,
         Recommend(h, taste, limit)
  PROVE  FreshInv'
<1>1. PICK r : r = [op |-> "recommend", taste |-> taste, limit |-> Clamp(limit),
                    had |-> ReadBy(Reader), blind |-> FALSE, mine |-> {}, all |-> {},
                    list |-> <<>>]
  OBVIOUS
<1>2. Goto(h, "history", r) /\ UNCHANGED <<reading, shelf>>
  BY <1>1 DEF Recommend, Begin
<1>3. Clamp(limit) \in 1..20
  BY RecommendAssumption DEF Clamp
<1>4. ReadBy(Reader) \subseteq Biblios /\ <<>> \in Seq(Entry(Biblios))
  BY DEF ReadBy
<1>5. r \in Question
  BY <1>1, <1>3, <1>4 DEF Question
<1>6. KnownOK("history", r)
  BY <1>1, <1>5 DEF KnownOK
<1> QED  BY <1>2, <1>6, Goes DEF RecommendLabels

LEMMA HistoryOK ==
  ASSUME FreshInv, NEW h \in Handlers, ReadHistory(h)
  PROVE  FreshInv'
<1>1. PICK failed \in BOOLEAN :
        Goto(h, "signals", [req[h] EXCEPT !.mine = IF failed THEN {} ELSE ReadBy(Reader),
                                          !.blind = failed])
  BY DEF ReadHistory
<1>2. PICK mine, r : /\ mine = IF failed THEN {} ELSE ReadBy(Reader)
                     /\ r = [req[h] EXCEPT !.mine = mine, !.blind = failed]
  OBVIOUS
<1>3. req[h] \in Question /\ req[h].had \subseteq ReadBy(Reader)
  BY DEF ReadHistory, FreshInv, KnownOK
<1>4. ReadBy(Reader) \subseteq Biblios
  BY DEF ReadBy
<1>5. /\ r \in Question /\ r.mine = mine /\ r.blind = failed /\ r.had = req[h].had
  BY <1>2, <1>3, <1>4 DEF Question
<1>6. KnownOK("signals", r)
  BY <1>2, <1>3, <1>5 DEF KnownOK
<1> QED  BY <1>1, <1>2, <1>6, Goes DEF RecommendLabels, ReadHistory

LEMMA SignalsOK ==
  ASSUME FreshInv, NEW h \in Handlers, ReadSignals(h)
  PROVE  FreshInv'
<1>1. PICK all \in {reading, {}} : Goto(h, "books", [req[h] EXCEPT !.all = all])
  BY DEF ReadSignals
<1>2. PICK r : r = [req[h] EXCEPT !.all = all]
  OBVIOUS
<1>3. KnownOK("signals", req[h])
  BY DEF ReadSignals, FreshInv
<1>4. all \subseteq Patrons \X Biblios
  BY DEF FreshInv, RecommendTypeOK
<1>5. r \in Question /\ r.mine = req[h].mine /\ r.blind = req[h].blind /\ r.had = req[h].had
  BY <1>2, <1>3, <1>4 DEF Question, KnownOK
<1>6. KnownOK("books", r)
  BY <1>3, <1>5 DEF KnownOK
<1> QED  BY <1>1, <1>2, <1>6, Goes DEF RecommendLabels, ReadSignals

LEMMA RankedLists ==
  ASSUME NEW r \in Question, NEW available, NEW list, list = Ranked(r, available)
  PROVE  Listing(list, Biblios \ r.mine) /\ AllHot(list, FALSE)
<1> DEFINE S == [b \in Biblios |-> Score(b, r, available)]
           books == {b \in Biblios \ r.mine : S[b] > 0}
<1>1. r.mine \subseteq Biblios
  BY DEF Question
<1>2. \A b \in Biblios : S[b] \in Int
  BY <1>1, ScoreIsInt
<1>3. list = InOrder(books, S, FALSE)
  BY DEF Ranked
<1>4. books \subseteq Biblios \ r.mine
  OBVIOUS
<1> HIDE DEF S, books
<1>5. Listing(list, books) /\ AllHot(list, FALSE)
  BY <1>2, <1>3, <1>4, OrderLists
<1>6. Entry(books) \subseteq Entry(Biblios \ r.mine)
  BY <1>4 DEF Entry
<1> QED  BY <1>5, <1>6, ListsWiden DEF Listing

LEMMA RankOK ==
  ASSUME FreshInv, NEW h \in Handlers, Rank(h)
  PROVE  FreshInv'
<1>1. CASE Finish(h) /\ UNCHANGED <<reading, shelf>>
  BY <1>1, Unanswered
<1>2. CASE ~ Finish(h)
  <2>1. PICK list : list = Ranked(req[h], shelf)
    OBVIOUS
  <2>2. KnownOK("books", req[h])
    BY DEF Rank, FreshInv
  <2>3. Listing(list, Biblios \ req[h].mine) /\ AllHot(list, FALSE)
    BY <2>1, <2>2, RankedLists DEF KnownOK
  <2>4. Entry(Biblios \ req[h].mine) \subseteq Entry(Biblios)
    BY DEF Entry
  <2>5. list \in Seq(Entry(Biblios)) /\ Len(list) \in Nat /\ req[h].limit \in 1..20
    <3>1. list \in Seq(Entry(Biblios \ req[h].mine))
      BY <2>3 DEF Listing
    <3>2. list \in Seq(Entry(Biblios)) /\ Len(list) \in Nat
      BY <2>4, <3>1, ListsWiden, LenProperties
    <3> QED  BY <2>2, <3>2 DEF Question, KnownOK
  <2>6. CASE Len(list) < req[h].limit
    <3>1. PICK r : r = [req[h] EXCEPT !.list = list]
      OBVIOUS
    <3>2. Goto(h, "hot", r) /\ UNCHANGED <<reading, shelf>>
      BY <1>2, <2>1, <2>6, <3>1 DEF Rank
    <3>3. /\ r \in Question /\ r.list = list /\ r.mine = req[h].mine /\ r.blind = req[h].blind
          /\ r.had = req[h].had /\ r.limit = req[h].limit
      BY <2>2, <2>5, <3>1 DEF Question, KnownOK
    <3>4. KnownOK("hot", r)
      BY <2>2, <2>3, <2>6, <3>3 DEF KnownOK
    <3> QED  BY <3>2, <3>4, Goes DEF RecommendLabels
  <2>7. CASE ~ (Len(list) < req[h].limit)
    <3>1. PICK s, r : s = SubSeq(list, 1, req[h].limit) /\ r = [req[h] EXCEPT !.list = s]
      OBVIOUS
    <3>2. Goto(h, "recommended", r) /\ UNCHANGED <<reading, shelf>>
      BY <1>2, <2>1, <2>7, <3>1 DEF Rank
    <3>3. req[h].limit \in Nat /\ req[h].limit <= Len(list)
      <4>1. PICK n, m : n = req[h].limit /\ m = Len(list)
        OBVIOUS
      <4>2. n \in 1..20 /\ m \in Nat /\ ~ (m < n)
        BY <2>5, <2>7, <4>1
      <4>3. n \in Nat /\ n <= m
        BY <4>2
      <4> QED  BY <4>1, <4>3
    <3>4. Listing(s, Biblios \ req[h].mine) /\ Len(s) = req[h].limit
      <4>1. PICK books, m : books = Biblios \ req[h].mine /\ m = req[h].limit /\ m \in Nat
        BY <3>3
      <4>2. Listing(list, books) /\ m <= Len(list) /\ s = SubSeq(list, 1, m)
        BY <2>3, <3>1, <3>3, <4>1
      <4>3. PICK prefix : prefix = SubSeq(list, 1, m)
        OBVIOUS
      <4>4. Listing(prefix, books) /\ Len(prefix) = m
        <5>1. Listing(list, books)
          BY <4>2
        <5>2. m \in Nat
          BY <4>1
        <5>3. m <= Len(list)
          BY <4>2
        <5> QED  BY <4>3, <5>1, <5>2, <5>3, PrefixLists, Zenon
      <4> QED  BY <4>1, <4>2, <4>3, <4>4
    <3>5. s \in Seq(Entry(Biblios))
      BY <2>4, <3>4, ListsWiden DEF Listing
    <3>6. /\ r \in Question /\ r.list = s /\ r.mine = req[h].mine /\ r.blind = req[h].blind
          /\ r.had = req[h].had /\ r.limit = req[h].limit
      BY <2>2, <3>1, <3>5 DEF Question, KnownOK
    <3>7. KnownOK("recommended", r)
      BY <2>2, <3>3, <3>4, <3>6 DEF KnownOK
    <3> QED  BY <3>2, <3>7, Goes DEF RecommendLabels
  <2> QED  BY <2>6, <2>7
<1> QED  BY <1>1, <1>2 DEF Rank

LEMMA BorrowCountIsNat ==
  ASSUME FreshInv, NEW b \in Biblios
  PROVE  BorrowCount[b] \in Nat
<1>1. IsFiniteSet({p \in Patrons : <<p, b>> \in reading})
  BY RecommendAssumption, FS_Subset
<1> QED  BY <1>1, FS_CardinalityType DEF BorrowCount

LEMMA FillUpLists ==
  ASSUME FreshInv, NEW r \in Question, NEW hot, hot \subseteq Biblios,
         Listing(r.list, Biblios \ r.mine), AllHot(r.list, FALSE), Len(r.list) < r.limit,
         NEW s, s = FillUp(r.list, hot, r)
  PROVE  Listing(s, Biblios \ r.mine) /\ Len(s) <= r.limit
<1>1. PICK list, others, more, n :
        /\ list = r.list /\ others = hot \ (r.mine \cup BooksOf(list))
        /\ more = InOrder(others, BorrowCount, TRUE) /\ n = r.limit - Len(list)
  OBVIOUS
<1>2. s = Behind(list, n, more)
  BY <1>1 DEF FillUp
<1>3. others \subseteq Biblios /\ others \subseteq Biblios \ r.mine /\ others \cap BooksOf(list) = {}
  BY <1>1
<1>4. \A b \in others : BorrowCount[b] \in Int
  BY <1>3, BorrowCountIsNat
<1>5. Listing(more, others) /\ AllHot(more, TRUE)
  BY <1>1, <1>3, <1>4, OrderLists
<1>6. Len(list) \in Nat /\ r.limit \in Nat /\ Len(list) < r.limit
  BY <1>1 DEF Listing, Question
<1>7. n \in Nat /\ Len(list) + n = r.limit
  BY <1>1, <1>6
<1>8. Listing(list, Biblios \ r.mine) /\ AllHot(list, FALSE)
  BY <1>1
<1>9. Listing(s, Biblios \ r.mine) /\ Len(s) <= Len(list) + n
  BY <1>2, <1>3, <1>5, <1>7, <1>8, BehindLists
<1> QED  BY <1>7, <1>9

LEMMA HotOK ==
  ASSUME FreshInv, NEW h \in Handlers, AddHot(h)
  PROVE  FreshInv'
<1>1. PICK hot \in {TopBorrowed(2 * req[h].limit), {}} :
        Goto(h, "recommended", [req[h] EXCEPT !.list = FillUp(@, hot, req[h])])
  BY DEF AddHot
<1>2. hot \subseteq Biblios
  BY <1>1 DEF TopBorrowed
<1>3. KnownOK("hot", req[h])
  BY DEF AddHot, FreshInv
<1>4. PICK s, r : s = FillUp(req[h].list, hot, req[h]) /\ r = [req[h] EXCEPT !.list = s]
  OBVIOUS
<1>5. Goto(h, "recommended", r) /\ UNCHANGED <<reading, shelf>>
  BY <1>1, <1>3, <1>4 DEF AddHot, KnownOK, Question
<1>6. Listing(s, Biblios \ req[h].mine) /\ Len(s) <= req[h].limit
  BY <1>2, <1>3, <1>4, FillUpLists DEF KnownOK
<1>7. Entry(Biblios \ req[h].mine) \subseteq Entry(Biblios)
  BY DEF Entry
<1>8. s \in Seq(Entry(Biblios))
  BY <1>6, <1>7, ListsWiden DEF Listing
<1>9. /\ r \in Question /\ r.list = s /\ r.mine = req[h].mine /\ r.blind = req[h].blind
      /\ r.had = req[h].had /\ r.limit = req[h].limit
  BY <1>3, <1>4, <1>8 DEF Question, KnownOK
<1>10. KnownOK("recommended", r)
  BY <1>3, <1>6, <1>9 DEF KnownOK
<1> QED  BY <1>5, <1>10, Goes DEF RecommendLabels

LEMMA ShelfOK ==
  ASSUME FreshInv, UNCHANGED <<pc, req>>, reading \subseteq reading',
         IsFiniteSet(reading'), reading' \subseteq Patrons \X Biblios,
         Cardinality(reading') <= MaxLends, shelf' \subseteq Biblios
  PROVE  FreshInv'
<1>1. ReadBy(Reader) \subseteq ReadBy(Reader)'
  BY DEF ReadBy
<1>2. ASSUME NEW h \in Handlers, pc[h] # "idle"
      PROVE  KnownOK(pc[h], req[h])'
  <2>1. KnownOK(pc[h], req[h])
    BY <1>2 DEF FreshInv
  <2> QED  BY <1>1, <2>1 DEF KnownOK
<1> QED  BY <1>2 DEF FreshInv, RecommendTypeOK

LEMMA LendOK ==
  ASSUME FreshInv, NEW p \in Patrons, NEW b \in Biblios, Lend(p, b)
  PROVE  FreshInv'
<1>1. PICK t : t = <<p, b>> /\ t \in Patrons \X Biblios /\ t \notin reading
  BY DEF Lend
<1>2. IsFiniteSet(reading) /\ Cardinality(reading) \in Nat
  BY FS_CardinalityType DEF FreshInv
<1>3. IsFiniteSet(reading \cup {t}) /\ Cardinality(reading \cup {t}) = Cardinality(reading) + 1
  BY <1>1, <1>2, FS_AddElement
<1>4. Cardinality(reading) + 1 <= MaxLends
  BY <1>2, RecommendAssumption DEF Lend
<1>5. reading' = reading \cup {t} /\ shelf' \subseteq Biblios /\ UNCHANGED <<pc, req>>
  BY <1>1 DEF Lend, FreshInv, RecommendTypeOK
<1>6. reading' \subseteq Patrons \X Biblios
  BY <1>1, <1>5 DEF FreshInv, RecommendTypeOK
<1> QED  BY <1>3, <1>4, <1>5, <1>6, ShelfOK

LEMMA BringBackOK ==
  ASSUME FreshInv, NEW b \in Biblios, BringBack(b)
  PROVE  FreshInv'
BY ShelfOK DEF BringBack, FreshInv, RecommendTypeOK

LEMMA FreshStarts == RecommendInit => FreshInv
<1>1. IsFiniteSet({}) /\ Cardinality({}) = 0
  BY FS_EmptySet
<1> QED  BY <1>1, RecommendAssumption DEF RecommendInit, FreshInv, RecommendTypeOK

LEMMA FreshStep == FreshInv /\ [RecommendNext]_recommendVars => FreshInv'
<1> SUFFICES ASSUME FreshInv, [RecommendNext]_recommendVars
             PROVE  FreshInv'
  OBVIOUS
<1>1. ASSUME NEW h \in Questioners,
             \/ \E taste \in Tastes, limit \in Limits : Recommend(h, taste, limit)
             \/ ReadHistory(h) \/ ReadSignals(h) \/ Rank(h) \/ AddHot(h) \/ Recommended(h)
      PROVE  FreshInv'
  <2>1. h \in Handlers
    BY RecommendAssumption
  <2>2. CASE \E taste \in Tastes, limit \in Limits : Recommend(h, taste, limit)
    BY <2>1, <2>2, AskedOK
  <2>3. CASE ReadHistory(h)
    BY <2>1, <2>3, HistoryOK
  <2>4. CASE ReadSignals(h)
    BY <2>1, <2>4, SignalsOK
  <2>5. CASE Rank(h)
    BY <2>1, <2>5, RankOK
  <2>6. CASE AddHot(h)
    BY <2>1, <2>6, HotOK
  <2>7. CASE Recommended(h)
    BY <2>1, <2>7, Unanswered DEF Recommended
  <2> QED  BY <1>1, <2>2, <2>3, <2>4, <2>5, <2>6, <2>7
<1>2. CASE UNCHANGED recommendVars
  <2>1. UNCHANGED <<pc, req>> /\ reading' = reading /\ shelf' = shelf
    BY <1>2 DEF recommendVars
  <2> QED  BY <2>1, ShelfOK DEF FreshInv, RecommendTypeOK
<1>3. CASE \E b \in Biblios : BringBack(b) \/ \E p \in Patrons : Lend(p, b)
  BY <1>3, BringBackOK, LendOK
<1> QED  BY <1>1, <1>2, <1>3 DEF RecommendNext

THEOREM RecommendInvariant == RecommendSpec => []FreshInv
<1> QED  BY FreshStarts, FreshStep, PTL DEF RecommendSpec

\* The labels of the requests, the history within its bound, and a shelf of
\* books that exist, for any number of readers, books and requests.
THEOREM RecommendTypeCorrect == RecommendSpec => []RecommendTypeOK
<1>1. FreshInv => RecommendTypeOK
  BY DEF FreshInv
<1> QED  BY <1>1, RecommendInvariant, PTL

\* RecommendForPatron's "候选排除读者已借过的书": whichever of the queries
\* failed, and whatever was lent between them, no list has a book twice, one
\* the reader had borrowed before the question or more than was asked for,
\* and it is in the order promised.
THEOREM ListsAreFresh == RecommendSpec => []FreshRecommendations
<1>1. ASSUME FreshInv
      PROVE  FreshRecommendations
  <2> SUFFICES ASSUME NEW h \in Handlers, pc[h] = "recommended"
               PROVE  LET r == req[h]  list == r.list IN
                      /\ Len(list) <= r.limit
                      /\ ~ r.blind => BooksOf(list) \cap r.had = {}
                      /\ Descending(list)
    BY DEF FreshRecommendations, Descending
  <2>1. KnownOK("recommended", req[h])
    BY <1>1 DEF FreshInv
  <2>2. PICK r, list : r = req[h] /\ list = r.list
    OBVIOUS
  <2>3. /\ Len(list) <= r.limit /\ Listing(list, Biblios \ r.mine)
        /\ ~ r.blind => r.had \subseteq r.mine
    BY <2>1, <2>2 DEF KnownOK
  <2>4. \A i \in DOMAIN list : list[i] \in Entry(Biblios \ r.mine)
    BY <2>3 DEF Listing
  <2>5. BooksOf(list) \cap r.mine = {}
    BY <2>4 DEF BooksOf, Entry
  <2> QED  BY <2>2, <2>3, <2>5 DEF Listing
<1> QED  BY <1>1, RecommendInvariant, PTL

----------------------------------------------------------------------------
(* The services side by side: the invariant of the part that a behaviour is *)
(* of.  The others stand still, and share no more than their initial state  *)
(* with it.                                                                 *)

InvOf(p) ==
  /\ p = "sessions" => SessInv
  /\ p \in {"gate", "favorites", "reminders"} => DeskInv
  /\ p = "assistant" => ScopeInv /\ ToldInv
  /\ p = "startup" => StartInv
  /\ p = "recommend" => FreshInv

ServicesInv == part \in Parts /\ InvOf(part)

LEMMA ServicesStart == Init => ServicesInv
BY SessInvInit, DeskInvInit, ScopeInvInit, ToldInvInit, StartInvInit, FreshStarts
   DEF Init, FrontDeskInit, ServicesInv, InvOf

LEMMA ServicesStep == ServicesInv /\ [Next]_vars => ServicesInv'
<1> SUFFICES ASSUME ServicesInv, [Next]_vars
             PROVE  ServicesInv'
  OBVIOUS
<1>1. CASE InSessions
  <2>1. part = "sessions" /\ part' = part /\ SessInv /\ SessionsNext
    BY <1>1 DEF InSessions, ServicesInv, InvOf
  <2> QED  BY <2>1, SessInvNext DEF ServicesInv, InvOf
<1>2. CASE InGate \/ InFavorites \/ InReminders
  <2>1. part \in {"gate", "favorites", "reminders"} /\ part' = part /\ DeskInv
    BY <1>2 DEF InGate, InFavorites, InReminders, ServicesInv, InvOf
  <2>2. FrontDeskNext
    BY <1>2 DEF InGate, InFavorites, InReminders, FrontDeskNext
  <2> QED  BY <2>1, <2>2, DeskInvNext DEF ServicesInv, InvOf
<1>3. CASE InAssistant
  <2>1. part = "assistant" /\ part' = part /\ ScopeInv /\ ToldInv /\ AssistantNext
    BY <1>3 DEF InAssistant, ServicesInv, InvOf
  <2> QED  BY <2>1, ScopeInvNext, ToldInvNext DEF ServicesInv, InvOf
<1>4. CASE InStartup
  <2>1. part = "startup" /\ part' = part /\ StartInv /\ StartupNext
    BY <1>4 DEF InStartup, ServicesInv, InvOf
  <2> QED  BY <2>1, StartInvNext DEF ServicesInv, InvOf
<1>5. CASE InRecommend
  <2>1. part = "recommend" /\ part' = part /\ FreshInv /\ RecommendNext
    BY <1>5 DEF InRecommend, ServicesInv, InvOf
  <2> QED  BY <2>1, FreshStep DEF ServicesInv, InvOf
<1>6. CASE UNCHANGED vars
  <2>1. /\ part' = part
        /\ UNCHANGED sessionsVars /\ UNCHANGED frontDeskVars /\ UNCHANGED assistantVars
        /\ UNCHANGED startupVars /\ UNCHANGED recommendVars
    BY <1>6 DEF vars, sessions, frontDesk, assistant, startup, recommend, sessionsVars,
                frontDeskVars, assistantVars, recommendVars
  <2> QED  BY <2>1, SessInvNext, DeskInvNext, ScopeInvNext, ToldInvNext, StartInvNext, FreshStep
              DEF ServicesInv, InvOf
<1> QED  BY <1>1, <1>2, <1>3, <1>4, <1>5, <1>6 DEF Next

LEMMA ServicesInvariance == Spec => []ServicesInv
<1> QED  BY ServicesStart, ServicesStep, PTL DEF Spec

\* Every service keeps to its types when all of them start together.
THEOREM ServicesTypeCorrect == Spec => []ServicesTypeOK
<1>1. ServicesInv => ServicesTypeOK
  <2> SUFFICES ASSUME ServicesInv
               PROVE  ServicesTypeOK
    OBVIOUS
  <2>1. part = "sessions" => SessionsTypeOK
    BY DEF ServicesInv, InvOf, SessInv
  <2>2. part \in {"gate", "favorites", "reminders"} => FrontDeskTypeOK
    BY DEF ServicesInv, InvOf, DeskInv
  <2>3. part = "assistant" => AssistantTypeOK
    BY DEF ServicesInv, InvOf, ScopeInv
  <2>4. part = "startup" => StartupTypeOK
    BY DEF ServicesInv, InvOf, StartInv
  <2>5. part = "recommend" => RecommendTypeOK
    BY DEF ServicesInv, InvOf, FreshInv
  <2>6. part \in Parts
    BY DEF ServicesInv
  <2> QED  BY <2>1, <2>2, <2>3, <2>4, <2>5, <2>6 DEF ServicesTypeOK, Parts
<1> QED  BY <1>1, ServicesInvariance, PTL
=============================================================================
