-------------------------- MODULE ProfileStoreProofs --------------------------
(***************************************************************************)
(* Proofs about ProfileStore for any number of profiles, subnets, threads  *)
(* and requests.                                                           *)
(*                                                                         *)
(* SavesStand rests on what the requests under way hold: a record that was *)
(* read and is not late is the row itself (Readers), and an upsert of the  *)
(* row itself changes what the request means to change and nothing else.   *)
(* SubnetsApart rests on Choosers: a subnet that was chosen is free until  *)
(* some row changes.                                                       *)
(***************************************************************************)
EXTENDS ProfileStore, WellFoundedInduction, TLAPS

Result == [by : Nat, subnet : Nat]

USE DEF Result

Row == [subnet : Nat, result : Result, apps : Nat, on : Nat, files : Nat]

Request ==
    [pc : {"read", "chosen", "checked"}, op : Operations \cup {"create"},
     profile : Profiles, subnet : Nat, number : Nat \ {0}, sent : Result,
     rec : Row \cup {Absent}, late : BOOLEAN, crowded : BOOLEAN]

Assumptions ==
    /\ Builtin \in Profiles
    /\ Absent \notin Row
    /\ MaxSubnet \in Nat \ {0}

TypeOK ==
    /\ rows \in [Profiles -> Row \cup {Absent}]
    /\ call \in [Calls -> Request \cup {Idle}]
    /\ served \in Nat
    /\ held \in [Profiles -> SUBSET Result]
    /\ meant \in [Profiles -> Row \cup {Absent}]
    /\ lost \in [Profiles -> SUBSET (Fields \cup {"row"})]
    /\ apart \in SUBSET SUBSET Profiles

(* A record that is read and not late is the row; a name that is checked   *)
(* and not late is free.                                                   *)
Readers ==
    \A c \in Calls :
        /\ call[c].pc = "read" =>
              /\ call[c].rec # Absent
              /\ call[c].op # "create"
              /\ ~call[c].late => call[c].rec = rows[call[c].profile]
        /\ call[c].pc = "checked" /\ ~call[c].late =>
              rows[call[c].profile] = Absent
        /\ call[c].pc \in {"chosen", "checked"} => call[c].op = "create"

(* Rows are healed, only rows that are meant to be gone are gone, and with *)
(* a result its subnet is lost.                                            *)
Tidy ==
    \A p \in Profiles :
        /\ rows[p] # Absent => Heal(rows[p]) = rows[p]
        /\ rows[p] = Absent => meant[p] = Absent
        /\ "result" \in lost[p] => "subnet" \in lost[p]

Choosers ==
    \A c \in Calls :
        call[c].pc \in {"chosen", "checked"} /\ ~call[c].crowded =>
            /\ \A p \in Live(rows) : rows[p].subnet # call[c].subnet
            /\ call[c].pc = "checked" => rows[call[c].profile] = Absent

PairsLive == \A pair \in apart : \A q \in pair : rows[q] # Absent

IInv == TypeOK /\ Readers /\ Tidy /\ SavesStand /\ Choosers /\ PairsLive /\ SubnetsApart

-----------------------------------------------------------------------------
(* Fields of records after the operations of the store. *)
LEMMA RowTypes ==
    /\ None \in Result
    /\ Seed \in Row
    /\ \A row \in Row : DOMAIN row = {"subnet", "result", "apps", "on", "files"}
BY DEF None, Seed, Row

LEMMA HealFields ==
    ASSUME NEW row \in Row
    PROVE  /\ Heal(row) \in Row
           /\ Heal(row).subnet = IF row.result = None THEN row.subnet
                                 ELSE row.result.subnet
           /\ Heal(row).result = row.result
           /\ Heal(row).apps = row.apps
           /\ Heal(row).on = row.on
           /\ Heal(row).files = row.files
BY DEF Heal, Row

Kept(old, rec) == old # Absent /\ old.on # 0 /\ rec.on = 0 /\ rec.files = 0

LEMMA UpsertFields ==
    ASSUME Assumptions, NEW old \in Row \cup {Absent}, NEW rec \in Row
    PROVE  /\ Upsert(old, rec) \in Row
           /\ rec.result = None /\ old # Absent =>
                 Upsert(old, rec).result = old.result
           /\ ~(rec.result = None /\ old # Absent) =>
                 Upsert(old, rec).result = rec.result
           /\ Upsert(old, rec).subnet =
                 IF Upsert(old, rec).result = None THEN rec.subnet
                 ELSE Upsert(old, rec).result.subnet
           /\ Upsert(old, rec).apps = rec.apps
           /\ Kept(old, rec) => /\ Upsert(old, rec).on = old.on
                                /\ Upsert(old, rec).files = old.files
           /\ ~Kept(old, rec) => /\ Upsert(old, rec).on = rec.on
                                 /\ Upsert(old, rec).files = rec.files
<1> DEFINE result == IF rec.result = None /\ old # Absent THEN old.result
                     ELSE rec.result
           on == IF Kept(old, rec) THEN old.on ELSE rec.on
           files == IF Kept(old, rec) THEN old.files ELSE rec.files
           new == [rec EXCEPT !.result = result, !.on = on, !.files = files]
<1>1. /\ result \in Result /\ on \in Nat /\ files \in Nat
  BY DEF Row, Kept, Assumptions
<1>2. /\ new \in Row
      /\ new.subnet = rec.subnet /\ new.apps = rec.apps
      /\ new.result = result /\ new.on = on /\ new.files = files
  <2> HIDE DEF result, on, files
  <2> QED BY <1>1 DEF Row
<1>3. Upsert(old, rec) = Heal(new)
  BY DEF Upsert, Kept
<1> HIDE DEF new
<1> QED
  BY <1>2, <1>3, HealFields

-----------------------------------------------------------------------------
(* What a commit does to the other requests under way. *)
LEMMA OthersAfterCommit ==
    ASSUME TypeOK, NEW c \in Calls, NEW p \in Profiles, NEW row,
           Committed(c, p, row)
    PROVE  /\ call' \in [Calls -> Request \cup {Idle}]
           /\ call'[c] = Idle
           /\ \A d \in Calls \ {c} :
                 /\ call'[d].pc = call[d].pc
                 /\ call[d].pc # "idle" =>
                       /\ call'[d].op = call[d].op
                       /\ call'[d].profile = call[d].profile
                       /\ call'[d].subnet = call[d].subnet
                       /\ call'[d].rec = call[d].rec
                       /\ ~call'[d].late =>
                             ~call[d].late /\ call[d].profile # p
                       /\ ~call'[d].crowded =>
                             ~call[d].crowded /\ row = rows[p]
<1>1. call'[c] = Idle
  BY DEF Committed
<1>2. \A d \in Calls : call[d].pc = "idle" \/ call[d] \in Request
  BY DEF TypeOK, Idle
<1>3. ASSUME NEW d \in Calls, d # c, call[d].pc = "idle"
      PROVE  call'[d] = call[d]
  BY <1>3 DEF Committed
<1>4. ASSUME NEW d \in Calls, d # c, call[d].pc # "idle"
      PROVE  /\ call'[d] \in Request
             /\ call'[d].pc = call[d].pc
             /\ call'[d].op = call[d].op
             /\ call'[d].profile = call[d].profile
             /\ call'[d].subnet = call[d].subnet
             /\ call'[d].rec = call[d].rec
             /\ ~call'[d].late => ~call[d].late /\ call[d].profile # p
             /\ ~call'[d].crowded => ~call[d].crowded /\ row = rows[p]
  <2>1. call[d] \in Request
    BY <1>2, <1>4
  <2> DEFINE late == call[d].late \/ call[d].profile = p
             crowded == call[d].crowded \/ row # rows[p]
  <2>2. late \in BOOLEAN /\ crowded \in BOOLEAN
    OBVIOUS
  <2>3. call'[d] = [call[d] EXCEPT !.late = late, !.crowded = crowded]
    BY <1>4 DEF Committed
  <2> HIDE DEF late, crowded
  <2>4. /\ call'[d] \in Request
        /\ call'[d].late = late /\ call'[d].crowded = crowded
        /\ call'[d].pc = call[d].pc
        /\ call'[d].op = call[d].op
        /\ call'[d].profile = call[d].profile
        /\ call'[d].subnet = call[d].subnet
        /\ call'[d].rec = call[d].rec
    BY <2>1, <2>2, <2>3 DEF Request
  <2>5. ~call'[d].late => ~call[d].late /\ call[d].profile # p
    <3>1. ~call'[d].late => ~late
      BY <2>4, Zenon
    <3> QED BY <3>1, Zenon DEF late
  <2>6. ~call'[d].crowded => ~call[d].crowded /\ row = rows[p]
    <3>1. ~call'[d].crowded => ~crowded
      BY <2>4, Zenon
    <3> QED BY <3>1, Zenon DEF crowded
  <2> QED
    BY <2>4, <2>5, <2>6
<1>5. ASSUME NEW d \in Calls PROVE call'[d] \in Request \cup {Idle}
  BY <1>1, <1>3, <1>4 DEF TypeOK
<1>6. call' = [d \in Calls |-> call'[d]]
  BY DEF Committed
<1> QED
  BY <1>1, <1>3, <1>4, <1>5, <1>6

LEMMA RowsAfterCommit ==
    ASSUME TypeOK, NEW c \in Calls, NEW p \in Profiles, NEW row,
           Committed(c, p, row)
    PROVE  /\ rows'[p] = row
           /\ \A q \in Profiles \ {p} : rows'[q] = rows[q]
           /\ row \in Row \cup {Absent} =>
                 rows' \in [Profiles -> Row \cup {Absent}]
BY DEF Committed, TypeOK

(* A pair of p and a profile whose subnet is another one. *)
Free(pair, p) ==
    \E q \in Profiles \ {p} :
        /\ pair = {p, q}
        /\ rows[q] # Absent /\ rows'[p].subnet # rows[q].subnet

(* A commit whose row, meaning and losses agree keeps the invariant.       *)
LEMMA CommitKeeps ==
    ASSUME Assumptions, IInv, NEW c \in Calls, NEW p \in Profiles,
           NEW row \in Row, Committed(c, p, row),
           meant' \in [Profiles -> Row \cup {Absent}],
           lost' \in [Profiles -> SUBSET (Fields \cup {"row"})],
           \A q \in Profiles \ {p} : meant'[q] = meant[q] /\ lost'[q] = lost[q],
           served' \in Nat,
           held' \in [Profiles -> SUBSET Result],
           Heal(row) = row,
           "result" \in lost'[p] => "subnet" \in lost'[p],
           Agrees(row, meant'[p], lost'[p]),
           \A pair \in apart' : pair \in StillApart \/ Free(pair, p)
    PROVE  IInv'
<1> USE DEF IInv
<1>0. row # Absent
  BY DEF Assumptions
<1>1. TypeOK'
  <2>1. apart' \in SUBSET SUBSET Profiles
    BY DEF TypeOK, StillApart, Free
  <2> QED
    BY <2>1, OthersAfterCommit, RowsAfterCommit DEF TypeOK
<1>2. Readers'
  <2> SUFFICES ASSUME NEW d \in Calls
               PROVE  /\ call'[d].pc = "read" =>
                            /\ call'[d].rec # Absent
                            /\ call'[d].op # "create"
                            /\ ~call'[d].late =>
                                  call'[d].rec = rows'[call'[d].profile]
                      /\ call'[d].pc = "checked" /\ ~call'[d].late =>
                            rows'[call'[d].profile] = Absent
                      /\ call'[d].pc \in {"chosen", "checked"} =>
                            call'[d].op = "create"
    BY DEF Readers
  <2>1. CASE d = c
    BY <2>1, OthersAfterCommit DEF Idle
  <2>2. CASE d # c /\ call[d].pc = "idle"
    BY <2>2, OthersAfterCommit
  <2>3. CASE d # c /\ call[d].pc # "idle"
    <3>1. call[d].profile \in Profiles
      BY <2>3 DEF TypeOK, Request, Idle
    <3>2. /\ call'[d].pc = call[d].pc
          /\ call'[d].op = call[d].op
          /\ call'[d].profile = call[d].profile
          /\ call'[d].rec = call[d].rec
          /\ ~call'[d].late => ~call[d].late /\ call[d].profile # p
      BY <2>3, OthersAfterCommit
    <3>3. ~call'[d].late => rows'[call[d].profile] = rows[call[d].profile]
      BY <3>1, <3>2, RowsAfterCommit
    <3> QED
      BY <3>2, <3>3 DEF Readers
  <2> QED BY <2>1, <2>2, <2>3
<1>3. Tidy'
  BY <1>0, RowsAfterCommit DEF Tidy
<1>4. SavesStand'
  BY RowsAfterCommit DEF SavesStand
<1>5. Choosers'
  <2> SUFFICES ASSUME NEW d \in Calls, call'[d].pc \in {"chosen", "checked"},
                      ~call'[d].crowded
               PROVE  /\ \A q \in Live(rows') : rows'[q].subnet # call'[d].subnet
                      /\ call'[d].pc = "checked" =>
                            rows'[call'[d].profile] = Absent
    BY DEF Choosers, Live
  <2>1. d # c
    BY OthersAfterCommit DEF Idle
  <2>2. call[d].pc \in {"chosen", "checked"}
    BY <2>1, OthersAfterCommit
  <2>3. ~call[d].crowded /\ row = rows[p]
    BY <2>1, <2>2, OthersAfterCommit
  <2>4. \A q \in Profiles : rows'[q] = rows[q]
    BY <2>3, RowsAfterCommit
  <2>5. call[d].profile \in Profiles
    BY <2>2 DEF TypeOK, Request, Idle
  <2> QED
    BY <2>1, <2>2, <2>3, <2>4, <2>5, OthersAfterCommit DEF Choosers, Live
<1>6. PairsLive' /\ SubnetsApart'
  <2> SUFFICES ASSUME NEW pair \in apart', NEW q \in pair, NEW r \in pair
               PROVE  /\ rows'[q] # Absent
                      /\ q # r => rows'[q].subnet # rows'[r].subnet
    BY DEF PairsLive, SubnetsApart
  <2>1. CASE pair \in StillApart
    BY <2>1 DEF PairsLive, SubnetsApart, StillApart
  <2>2. CASE Free(pair, p)
    BY <2>2, <1>0, RowsAfterCommit DEF Free
  <2> QED BY <2>1, <2>2
<1> QED
  BY <1>1, <1>2, <1>3, <1>4, <1>5, <1>6

-----------------------------------------------------------------------------
LEMMA HealAgain ==
    ASSUME NEW row \in Row
    PROVE  Heal(Heal(row)) = Heal(row)
<1>1. CASE row.result = None
  BY <1>1 DEF Heal
<1>2. CASE row.result # None
  <2>1. Heal(row) = [row EXCEPT !.subnet = row.result.subnet]
    BY <1>2 DEF Heal
  <2> DEFINE new == [row EXCEPT !.subnet = row.result.subnet]
  <2>2. /\ new \in [subnet : Nat, result : Result,
                    apps : Nat, on : Nat, files : Nat]
        /\ new.subnet = row.result.subnet /\ new.result = row.result
    BY DEF Row
  <2>3. [new EXCEPT !.subnet = new.result.subnet] = new
    <3> HIDE DEF new
    <3> QED BY <2>2
  <2> QED
    BY <2>1, <2>2, <2>3, <1>2 DEF Heal
<1> QED BY <1>1, <1>2

LEMMA UpsertHealed ==
    ASSUME Assumptions, NEW old \in Row \cup {Absent}, NEW rec \in Row
    PROVE  Heal(Upsert(old, rec)) = Upsert(old, rec)
<1> DEFINE result == IF rec.result = None /\ old # Absent THEN old.result
                     ELSE rec.result
           on == IF Kept(old, rec) THEN old.on ELSE rec.on
           files == IF Kept(old, rec) THEN old.files ELSE rec.files
           new == [rec EXCEPT !.result = result, !.on = on, !.files = files]
<1>1. /\ result \in Result /\ on \in Nat /\ files \in Nat
  BY DEF Row, Kept, Assumptions
<1>2. new \in Row
  <2> HIDE DEF result, on, files
  <2> QED BY <1>1 DEF Row
<1>3. Upsert(old, rec) = Heal(new)
  BY DEF Upsert, Kept
<1> HIDE DEF new
<1> QED
  BY <1>2, <1>3, HealAgain

(* The record a save of applications or of a solve writes. *)
LEMMA ChangedFields ==
    ASSUME NEW k \in Request, k.rec \in Row
    PROVE  /\ Changed(k) \in Row
           /\ Changed(k).on = k.rec.on /\ Changed(k).files = k.rec.files
           /\ k.op = "apps" =>
                 /\ Changed(k).apps = k.number
                 /\ Changed(k).subnet = k.rec.subnet
                 /\ Changed(k).result = k.rec.result
           /\ k.op # "apps" =>
                 /\ Changed(k).apps = k.rec.apps
                 /\ Changed(k).subnet = k.subnet
                 /\ Changed(k).result = Solution(k)
                 /\ Changed(k).result # None
<1>1. k.number \in Nat \ {0} /\ k.subnet \in Nat
  BY DEF Request
<1>2. CASE k.op = "apps"
  BY <1>1, <1>2 DEF Changed, Row
<1>3. CASE k.op # "apps"
  <2> DEFINE result == Solution(k)
  <2>1. result \in Result /\ result # None
    BY <1>1 DEF None, Solution
  <2>2. Changed(k) = [k.rec EXCEPT !.subnet = k.subnet, !.result = result]
    BY <1>3 DEF Changed
  <2> HIDE DEF result
  <2>3. /\ Changed(k) \in Row
        /\ Changed(k).on = k.rec.on /\ Changed(k).files = k.rec.files
        /\ Changed(k).apps = k.rec.apps
        /\ Changed(k).subnet = k.subnet
        /\ Changed(k).result = result
    BY <1>1, <2>1, <2>2 DEF Row
  <2> QED BY <1>3, <2>1, <2>3 DEF result
<1> QED BY <1>2, <1>3

LEMMA RecordedFields ==
    ASSUME NEW k \in Request, k.rec \in Row, NEW row \in Row,
           k.op \in {"apply", "dry", "undeploy", "restore"}
    PROVE  LET new == Recorded(k, row)
           IN  /\ new \in Row
               /\ k.op = "restore" =>
                     /\ new.subnet = 1 /\ new.result = None /\ new.apps = 0
                     /\ new.on = row.on /\ new.files = row.files
               /\ k.op # "restore" =>
                     /\ new.subnet = row.subnet /\ new.apps = row.apps
                     /\ new.result = IF k.sent # None THEN k.sent
                                     ELSE k.rec.result
                     /\ new.on = CASE k.op = "apply" -> k.number
                                   [] k.op = "dry" -> k.rec.on
                                   [] k.op = "undeploy" -> 0
                     /\ new.files = IF k.op = "undeploy" THEN 0 ELSE k.number
<1>1. k.number \in Nat
  BY DEF Request
<1>2. CASE k.op = "restore"
  <2>1. Recorded(k, row) = [subnet |-> 1, result |-> None, apps |-> 0,
                            on |-> row.on, files |-> row.files]
    BY <1>2 DEF Recorded, Seed
  <2> QED BY <1>2, <2>1, RowTypes DEF Row
<1>3. CASE k.op # "restore"
  <2> DEFINE on == CASE k.op = "apply" -> k.number
                     [] k.op = "dry" -> k.rec.on
                     [] k.op = "undeploy" -> 0
             files == IF k.op = "undeploy" THEN 0 ELSE k.number
             result == IF k.sent # None THEN k.sent ELSE k.rec.result
  <2>1. on \in Nat /\ files \in Nat /\ result \in Result
    BY <1>1, <1>3 DEF Row, Request
  <2>2. Recorded(k, row) =
          [row EXCEPT !.result = result, !.on = on, !.files = files]
    BY <1>3 DEF Recorded
  <2> HIDE DEF on, files, result
  <2>3. /\ Recorded(k, row) \in Row
        /\ Recorded(k, row).subnet = row.subnet
        /\ Recorded(k, row).apps = row.apps
        /\ Recorded(k, row).result = result
        /\ Recorded(k, row).on = on
        /\ Recorded(k, row).files = files
    BY <2>1, <2>2 DEF Row
  <2> QED BY <1>3, <2>3 DEF on, files, result
<1> QED BY <1>2, <1>3

LEMMA MeantFields ==
    ASSUME NEW k \in Request, NEW m \in Row,
           k.op \in {"apply", "dry", "undeploy", "restore"}
    PROVE  LET new == Meant(k, m)
           IN  /\ new \in Row
               /\ k.op = "restore" =>
                     /\ new.subnet = 1 /\ new.result = None /\ new.apps = 0
                     /\ new.on = m.on /\ new.files = m.files
               /\ k.op # "restore" =>
                     /\ new.apps = m.apps
                     /\ k.sent = None => /\ new.subnet = m.subnet
                                         /\ new.result = m.result
                     /\ k.sent # None => /\ new.subnet = k.sent.subnet
                                         /\ new.result = k.sent
                     /\ new.on = CASE k.op = "apply" -> k.number
                                   [] k.op = "dry" -> m.on
                                   [] k.op = "undeploy" -> 0
                     /\ new.files = IF k.op = "undeploy" THEN 0 ELSE k.number
<1>1. k.number \in Nat
  BY DEF Request
<1>2. CASE k.op = "restore"
  <2>1. Meant(k, m) = [subnet |-> 1, result |-> None, apps |-> 0,
                       on |-> m.on, files |-> m.files]
    BY <1>2 DEF Meant, Seed
  <2> QED BY <1>2, <2>1, RowTypes DEF Row
<1> DEFINE with == IF k.sent = None THEN m
                   ELSE [m EXCEPT !.result = k.sent, !.subnet = k.sent.subnet]
<1>3. /\ with \in Row
      /\ with.apps = m.apps /\ with.on = m.on
      /\ k.sent = None => with.subnet = m.subnet /\ with.result = m.result
      /\ k.sent # None => /\ with.subnet = k.sent.subnet
                          /\ with.result = k.sent
  <2>1. k.sent \in Result /\ k.sent.subnet \in Nat
    BY DEF Request
  <2>2. CASE k.sent = None
    BY <2>2
  <2>3. CASE k.sent # None
    BY <2>1, <2>3 DEF Row
  <2> QED BY <2>2, <2>3
<1>4. /\ k.op = "apply" =>
            Meant(k, m) = [with EXCEPT !.on = k.number, !.files = k.number]
      /\ k.op = "dry" => Meant(k, m) = [with EXCEPT !.files = k.number]
      /\ k.op = "undeploy" => Meant(k, m) = [with EXCEPT !.on = 0, !.files = 0]
  BY DEF Meant
<1> HIDE DEF with
<1>5. CASE k.op = "apply"
  BY <1>1, <1>3, <1>4, <1>5 DEF Row
<1>6. CASE k.op = "dry"
  BY <1>1, <1>3, <1>4, <1>6 DEF Row
<1>7. CASE k.op = "undeploy"
  <2> DEFINE new == [with EXCEPT !.on = 0, !.files = 0]
  <2>1. /\ new \in Row
        /\ new.subnet = with.subnet /\ new.result = with.result
        /\ new.apps = with.apps /\ new.on = 0 /\ new.files = 0
    BY <1>3 DEF Row
  <2>2. Meant(k, m) = new
    BY <1>4, <1>7
  <2> HIDE DEF new
  <2> QED BY <1>3, <1>7, <2>1, <2>2
<1> QED BY <1>2, <1>5, <1>6, <1>7

-----------------------------------------------------------------------------
(* The steps that commit a row. *)
LEMMA SaveKeeps ==
    ASSUME Assumptions, IInv, NEW c \in Calls, SaveRecord(c)
    PROVE  IInv'
<1> DEFINE k == call[c]
           p == k.profile
           row == Upsert(rows[p], Changed(k))
           own == IF k.op = "apps" THEN {"apps"} ELSE {"subnet", "result"}
           old == {"subnet", "apps"}
                  \cup (IF k.rec.result # None THEN {"result"} ELSE {})
                  \cup (IF k.rec.on # 0 \/ k.rec.files # 0 THEN {"on"} ELSE {})
           fresh == Solution(k)
<1>1. k.pc = "read" /\ k.op \in {"apps", "solve"}
  BY DEF SaveRecord
<1>2. k \in Request /\ k.rec \in Row /\ p \in Profiles
  BY <1>1 DEF IInv, TypeOK, Idle, Request, Readers
<1>3. ~k.late => k.rec = rows[p]
  BY <1>1 DEF IInv, Readers
<1>4. /\ rows[p] \in Row \cup {Absent} /\ meant[p] \in Row \cup {Absent}
      /\ lost[p] \in SUBSET (Fields \cup {"row"})
      /\ Agrees(rows[p], meant[p], lost[p])
      /\ rows[p] # Absent => Heal(rows[p]) = rows[p]
      /\ "result" \in lost[p] => "subnet" \in lost[p]
  BY <1>2 DEF IInv, TypeOK, SavesStand, Tidy
<1>5. /\ Committed(c, p, row)
      /\ meant' = [meant EXCEPT ![p] =
             IF @ = Absent THEN @
             ELSE IF k.op = "apps" THEN [@ EXCEPT !.apps = k.number]
             ELSE [@ EXCEPT !.subnet = k.subnet, !.result = fresh]]
      /\ lost' = [lost EXCEPT ![p] =
             @ \cup (IF k.late THEN old \ own ELSE {})
               \cup (IF rows[p] = Absent THEN {"row"} ELSE {})]
      /\ apart' = StillApart
      /\ served' = served
      /\ held' = [held EXCEPT ![p] =
             @ \cup (IF k.op = "solve" THEN {fresh} ELSE {})]
  BY Zenon DEF SaveRecord
<1>c. /\ Changed(k) \in Row
      /\ Changed(k).on = k.rec.on /\ Changed(k).files = k.rec.files
      /\ k.op = "apps" => /\ Changed(k).apps = k.number
                          /\ Changed(k).subnet = k.rec.subnet
                          /\ Changed(k).result = k.rec.result
      /\ k.op # "apps" => /\ Changed(k).apps = k.rec.apps
                          /\ Changed(k).subnet = k.subnet
                          /\ Changed(k).result = fresh
                          /\ fresh # None
  <2> HIDE DEF k
  <2> QED BY <1>2, ChangedFields
<1>6. /\ row \in Row /\ Heal(row) = row
      /\ row.apps = Changed(k).apps
      /\ row.result = IF Changed(k).result = None /\ rows[p] # Absent
                      THEN rows[p].result ELSE Changed(k).result
      /\ row.subnet = IF row.result = None THEN Changed(k).subnet
                      ELSE row.result.subnet
      /\ row.on = IF Kept(rows[p], Changed(k)) THEN rows[p].on ELSE k.rec.on
      /\ row.files = IF Kept(rows[p], Changed(k)) THEN rows[p].files
                     ELSE k.rec.files
  <2> DEFINE rec == Changed(k)
             was == rows[p]
  <2>1. /\ rec \in Row /\ rec.on = k.rec.on /\ rec.files = k.rec.files
        /\ was \in Row \cup {Absent}
    BY <1>c, <1>4
  <2>2. row = Upsert(was, rec)
    OBVIOUS
  <2> HIDE DEF k, p, rec, was, row
  <2>3. /\ row \in Row
        /\ row.apps = rec.apps
        /\ row.result = IF rec.result = None /\ was # Absent
                        THEN was.result ELSE rec.result
        /\ row.subnet = IF row.result = None THEN rec.subnet
                        ELSE row.result.subnet
        /\ row.on = IF Kept(was, rec) THEN was.on ELSE rec.on
        /\ row.files = IF Kept(was, rec) THEN was.files ELSE rec.files
    BY <2>1, <2>2, UpsertFields DEF Kept
  <2>4. Heal(row) = row
    BY <2>1, <2>2, UpsertHealed
  <2> QED
    BY <2>1, <2>3, <2>4 DEF rec, was
<1>7. fresh \in Result /\ fresh.subnet = k.subnet
      /\ k.number \in Nat /\ k.subnet \in Nat
  BY <1>2 DEF Request, Solution
<1>8. /\ lost'[p] = lost[p] \cup (IF k.late THEN old \ own ELSE {})
                    \cup (IF rows[p] = Absent THEN {"row"} ELSE {})
      /\ lost'[p] \in SUBSET (Fields \cup {"row"})
      /\ lost' \in [Profiles -> SUBSET (Fields \cup {"row"})]
      /\ \A q \in Profiles \ {p} : lost'[q] = lost[q]
      /\ "result" \in lost'[p] => "subnet" \in lost'[p]
  <2>1. old \ own \in SUBSET Fields
    BY DEF Fields
  <2>2. "result" \in old \ own => "subnet" \in old \ own
    OBVIOUS
  <2> HIDE DEF old, own
  <2> QED BY <1>2, <1>4, <1>5, <2>1, <2>2 DEF IInv, TypeOK
<1>9. /\ meant' \in [Profiles -> Row \cup {Absent}]
      /\ \A q \in Profiles \ {p} : meant'[q] = meant[q]
      /\ meant[p] = Absent => meant'[p] = Absent
      /\ meant[p] # Absent =>
            /\ meant'[p] \in Row
            /\ meant'[p].on = meant[p].on /\ meant'[p].files = meant[p].files
            /\ k.op = "apps" => /\ meant'[p].apps = k.number
                                /\ meant'[p].subnet = meant[p].subnet
                                /\ meant'[p].result = meant[p].result
            /\ k.op # "apps" => /\ meant'[p].apps = meant[p].apps
                                /\ meant'[p].subnet = k.subnet
                                /\ meant'[p].result = fresh
  <2> DEFINE m == meant[p]
             new == IF k.op = "apps" THEN [m EXCEPT !.apps = k.number]
                    ELSE [m EXCEPT !.subnet = k.subnet, !.result = fresh]
  <2> HIDE DEF fresh
  <2>1. ASSUME m \in Row
        PROVE  /\ new \in Row
               /\ new.on = m.on /\ new.files = m.files
               /\ k.op = "apps" => /\ new.apps = k.number
                                   /\ new.subnet = m.subnet
                                   /\ new.result = m.result
               /\ k.op # "apps" => /\ new.apps = m.apps
                                   /\ new.subnet = k.subnet
                                   /\ new.result = fresh
    BY <1>7, <2>1 DEF Row
  <2>2. meant' = [meant EXCEPT ![p] = IF m = Absent THEN m ELSE new]
    BY <1>5
  <2> HIDE DEF new
  <2>3. meant \in [Profiles -> Row \cup {Absent}]
    BY DEF IInv, TypeOK
  <2> QED BY <1>2, <1>4, <2>1, <2>2, <2>3
<1> HIDE DEF k, p, row, fresh
<1>10. Agrees(row, meant'[p], lost'[p])
  <2> SUFFICES ASSUME "row" \notin lost'[p]
               PROVE  Agrees(row, meant'[p], lost'[p])
    BY DEF Agrees
  <2>1. rows[p] \in Row /\ "row" \notin lost[p]
    BY <1>4, <1>8
  <2>2. /\ meant[p] \in Row
        /\ "subnet" \notin lost[p] => rows[p].subnet = meant[p].subnet
        /\ "result" \notin lost[p] => rows[p].result = meant[p].result
        /\ "apps" \notin lost[p] => rows[p].apps = meant[p].apps
        /\ "on" \notin lost[p] =>
              /\ rows[p].on = meant[p].on
              /\ meant[p].on # 0 => rows[p].files = meant[p].files
    BY <1>4, <2>1 DEF Agrees, Assumptions
  <2>3. rows[p].result # None => rows[p].subnet = rows[p].result.subnet
    BY <1>4, <2>1, HealFields DEF Assumptions
  <2>4. row # Absent /\ meant'[p] # Absent
    BY <1>6, <1>9, <2>2 DEF Assumptions
  <2>5. "subnet" \notin lost'[p] => row.subnet = meant'[p].subnet
    <3>1. CASE k.op = "apps"
      <4>1. CASE k.late
        BY <1>8, <3>1, <4>1
      <4>2. CASE ~k.late
        BY <1>2, <1>3, <1>6, <1>8, <1>9, <2>1, <2>2, <2>3, <3>1, <4>2,
           <1>c DEF Assumptions
      <4> QED BY <4>1, <4>2
    <3>2. CASE k.op # "apps"
      BY <1>2, <1>6, <1>7, <1>9, <2>2, <3>2, <1>c DEF Assumptions
    <3> QED BY <3>1, <3>2
  <2>6. "result" \notin lost'[p] => row.result = meant'[p].result
    <3>1. CASE k.op = "apps"
      <4>1. k.late => "result" \in lost'[p] \/ k.rec.result = None
        BY <1>8, <3>1
      <4>2. row.result = rows[p].result \/ "result" \in lost'[p]
        BY <1>2, <1>3, <1>6, <2>1, <3>1, <4>1, <1>c DEF Assumptions
      <4> QED BY <1>8, <1>9, <2>2, <3>1, <4>2 DEF Assumptions
    <3>2. CASE k.op # "apps"
      BY <1>2, <1>6, <1>9, <2>2, <3>2, <1>c DEF Assumptions
    <3> QED BY <3>1, <3>2
  <2>7. "apps" \notin lost'[p] => row.apps = meant'[p].apps
    <3>1. CASE k.op = "apps"
      BY <1>2, <1>6, <1>9, <2>2, <3>1, <1>c DEF Assumptions
    <3>2. CASE k.op # "apps"
      BY <1>2, <1>3, <1>6, <1>8, <1>9, <2>1, <2>2, <3>2, ChangedFields
         DEF Assumptions
    <3> QED BY <3>1, <3>2
  <2>8. "on" \notin lost'[p] =>
           /\ row.on = meant'[p].on
           /\ meant'[p].on # 0 => row.files = meant'[p].files
    <3> SUFFICES ASSUME "on" \notin lost'[p]
                 PROVE  /\ row.on = meant'[p].on
                        /\ meant'[p].on # 0 => row.files = meant'[p].files
      OBVIOUS
    <3>1. "on" \notin lost[p]
      BY <1>8
    <3>2. CASE k.late
      <4>1. k.rec.on = 0 /\ k.rec.files = 0
        BY <1>8, <3>2
      <4>2. Kept(rows[p], Changed(k)) \/ rows[p].on = 0
        BY <1>2, <2>1, <4>1, <1>c DEF Kept, Assumptions
      <4> QED BY <1>6, <1>9, <2>2, <3>1, <4>1, <4>2 DEF Assumptions
    <3>3. CASE ~k.late
      BY <1>3, <1>6, <1>9, <2>1, <2>2, <3>1, <3>3 DEF Assumptions
    <3> QED BY <3>2, <3>3
  <2> QED BY <2>4, <2>5, <2>6, <2>7, <2>8 DEF Agrees
<1>11. served' \in Nat /\ held' \in [Profiles -> SUBSET Result]
  BY <1>2, <1>5, <1>7 DEF IInv, TypeOK
<1> HIDE DEF old, own
<1> QED
  BY <1>2, <1>5, <1>6, <1>8, <1>9, <1>10, <1>11, CommitKeeps

LEMMA UpdateKeeps ==
    ASSUME Assumptions, IInv, NEW c \in Calls, UpdateColumns(c),
           rows[call[c].profile] # Absent
    PROVE  IInv'
<1> DEFINE k == call[c]
           p == k.profile
           rec == Recorded(k, rows[p])
           row == Heal(rec)
           old == IF k.op = "restore" THEN {}
                  ELSE (IF k.sent = None THEN {"subnet", "result"} ELSE {})
                       \cup (IF k.op = "dry" THEN {"on"} ELSE {})
<1>1. k.pc = "read" /\ k.op \in {"apply", "dry", "undeploy", "restore"}
  BY DEF UpdateColumns
<1>2. k \in Request /\ k.rec \in Row /\ p \in Profiles
  BY <1>1 DEF IInv, TypeOK, Idle, Request, Readers
<1>3. ~k.late => k.rec = rows[p]
  BY <1>1 DEF IInv, Readers
<1>4. /\ rows[p] \in Row /\ meant[p] \in Row \cup {Absent}
      /\ lost[p] \in SUBSET (Fields \cup {"row"})
      /\ Agrees(rows[p], meant[p], lost[p])
      /\ Heal(rows[p]) = rows[p]
      /\ "result" \in lost[p] => "subnet" \in lost[p]
  BY <1>2 DEF IInv, TypeOK, SavesStand, Tidy
<1>5. /\ Committed(c, p, row)
      /\ meant' = [meant EXCEPT ![p] = IF @ = Absent THEN @ ELSE Meant(k, @)]
      /\ lost' = [lost EXCEPT ![p] = @ \cup (IF k.late THEN old ELSE {})]
      /\ apart' = StillApart
      /\ served' = served /\ held' = held
  BY Zenon DEF UpdateColumns
<1>6. /\ rec \in Row
      /\ k.op = "restore" =>
            /\ rec.subnet = 1 /\ rec.result = None /\ rec.apps = 0
            /\ rec.on = rows[p].on /\ rec.files = rows[p].files
      /\ k.op # "restore" =>
            /\ rec.subnet = rows[p].subnet /\ rec.apps = rows[p].apps
            /\ k.sent = None => rec.result = k.rec.result
            /\ k.sent # None => rec.result = k.sent
            /\ k.op = "apply" => rec.on = k.number
            /\ k.op = "dry" => rec.on = k.rec.on
            /\ k.op = "undeploy" => rec.on = 0
            /\ k.op # "undeploy" => rec.files = k.number
  <2> HIDE DEF k, p
  <2> QED BY <1>1, <1>2, <1>4, RecordedFields
<1>7. /\ row \in Row /\ Heal(row) = row
      /\ row.subnet = IF rec.result = None THEN rec.subnet ELSE rec.result.subnet
      /\ row.result = rec.result /\ row.apps = rec.apps
      /\ row.on = rec.on /\ row.files = rec.files
  <2> HIDE DEF rec
  <2> QED BY <1>6, HealFields, HealAgain
<1>8. /\ lost'[p] = lost[p] \cup (IF k.late THEN old ELSE {})
      /\ lost' \in [Profiles -> SUBSET (Fields \cup {"row"})]
      /\ \A q \in Profiles \ {p} : lost'[q] = lost[q]
      /\ "result" \in lost'[p] => "subnet" \in lost'[p]
  <2>1. old \in SUBSET Fields
    BY DEF Fields
  <2>2. "result" \in old => "subnet" \in old
    OBVIOUS
  <2> HIDE DEF old
  <2> QED BY <1>2, <1>4, <1>5, <2>1, <2>2 DEF IInv, TypeOK
<1>9. /\ meant' \in [Profiles -> Row \cup {Absent}]
      /\ \A q \in Profiles \ {p} : meant'[q] = meant[q]
      /\ meant'[p] = IF meant[p] = Absent THEN Absent ELSE Meant(k, meant[p])
  <2> HIDE DEF k
  <2>1. meant[p] # Absent => Meant(k, meant[p]) \in Row
    BY <1>1, <1>2, <1>4, MeantFields
  <2>2. meant \in [Profiles -> Row \cup {Absent}]
    BY DEF IInv, TypeOK
  <2> HIDE DEF p
  <2> QED BY <1>2, <1>4, <1>5, <2>1, <2>2
<1>10. rows[p].result # None => rows[p].subnet = rows[p].result.subnet
  BY <1>4, HealFields
<1> HIDE DEF k, p, rec, row
<1>11. Agrees(row, meant'[p], lost'[p])
  <2> SUFFICES ASSUME "row" \notin lost[p]
               PROVE  Agrees(row, meant'[p], lost'[p])
    BY <1>8 DEF Agrees
  <2> DEFINE m == meant[p]
             new == Meant(k, m)
  <2>1. /\ m \in Row
        /\ "subnet" \notin lost[p] => rows[p].subnet = m.subnet
        /\ "result" \notin lost[p] => rows[p].result = m.result
        /\ "apps" \notin lost[p] => rows[p].apps = m.apps
        /\ "on" \notin lost[p] =>
              /\ rows[p].on = m.on
              /\ m.on # 0 => rows[p].files = m.files
    BY <1>4 DEF Agrees, Assumptions
  <2> HIDE DEF m
  <2>2. /\ new \in Row
        /\ k.op = "restore" =>
              /\ new.subnet = 1 /\ new.result = None /\ new.apps = 0
              /\ new.on = m.on /\ new.files = m.files
        /\ k.op # "restore" =>
              /\ new.apps = m.apps
              /\ k.sent = None => /\ new.subnet = m.subnet
                                  /\ new.result = m.result
              /\ k.sent # None => /\ new.subnet = k.sent.subnet
                                  /\ new.result = k.sent
              /\ k.op = "apply" => new.on = k.number
              /\ k.op = "dry" => new.on = m.on
              /\ k.op = "undeploy" => new.on = 0
              /\ k.op # "undeploy" => new.files = k.number
    BY <1>1, <1>2, <2>1, MeantFields
  <2>3. meant'[p] = new
    BY <1>9, <2>1 DEF m, Assumptions
  <2> HIDE DEF new
  <2>4. row # Absent /\ meant'[p] # Absent
    BY <1>7, <2>2, <2>3 DEF Assumptions
  <2>5. lost[p] \subseteq lost'[p]
    BY <1>8
  <2>6. CASE k.op = "restore"
    BY <1>6, <1>7, <2>1, <2>2, <2>3, <2>4, <2>5, <2>6 DEF Agrees
  <2>7. CASE k.op # "restore" /\ k.late
    <3>1. /\ k.sent = None => "subnet" \in lost'[p] /\ "result" \in lost'[p]
          /\ k.op = "dry" => "on" \in lost'[p]
      BY <1>1, <1>8, <2>7
    <3>4. k.sent # None => row.subnet = new.subnet /\ row.result = new.result
      BY <1>6, <1>7, <2>2, <2>7
    <3>2. "on" \notin lost'[p] =>
             /\ row.on = new.on
             /\ new.on # 0 => row.files = new.files
      BY <1>1, <1>6, <1>7, <2>2, <2>7, <3>1
    <3>3. "apps" \notin lost'[p] => row.apps = new.apps
      BY <1>6, <1>7, <2>1, <2>2, <2>5, <2>7
    <3> QED BY <2>3, <2>4, <3>1, <3>2, <3>3, <3>4 DEF Agrees
  <2>8. CASE k.op # "restore" /\ ~k.late
    <3>1. k.rec = rows[p]
      BY <1>3, <2>8
    <3>2. /\ k.sent = None => /\ row.subnet = rows[p].subnet
                              /\ row.result = rows[p].result
          /\ k.sent # None => /\ row.subnet = new.subnet
                              /\ row.result = new.result
      BY <1>6, <1>7, <1>10, <2>2, <2>8, <3>1
    <3>3. "on" \notin lost'[p] =>
             /\ row.on = new.on
             /\ new.on # 0 => row.files = new.files
      BY <1>1, <1>6, <1>7, <2>1, <2>2, <2>5, <2>8, <3>1
    <3>4. "apps" \notin lost'[p] => row.apps = new.apps
      BY <1>6, <1>7, <2>1, <2>2, <2>5, <2>8
    <3> QED BY <2>1, <2>2, <2>3, <2>4, <2>5, <2>8, <3>2, <3>3, <3>4 DEF Agrees
  <2> QED BY <2>6, <2>7, <2>8
<1>12. served' \in Nat /\ held' \in [Profiles -> SUBSET Result]
  BY <1>5 DEF IInv, TypeOK
<1> HIDE DEF old
<1> QED
  BY <1>2, <1>5, <1>7, <1>8, <1>9, <1>11, <1>12, CommitKeeps

LEMMA PutKeeps ==
    ASSUME Assumptions, IInv, NEW c \in Calls, NEW p \in Profiles,
           NEW s \in 1..MaxSubnet, NEW apps \in {0, served + 1},
           Put(c, p, s, apps)
    PROVE  IInv'
<1> DEFINE rec == [Seed EXCEPT !.subnet = s, !.apps = apps]
           was == rows[p]
           row == Upsert(was, rec)
           changed == [meant[p] EXCEPT !.subnet = s, !.apps = apps]
<1>1. s \in Nat /\ apps \in Nat
  BY DEF IInv, TypeOK, Assumptions
<1>2. /\ rec \in Row
      /\ rec.subnet = s /\ rec.apps = apps /\ rec.result = None
      /\ rec.on = 0 /\ rec.files = 0
  BY <1>1, RowTypes DEF Seed, Row
<1>3. /\ was \in Row \cup {Absent} /\ meant[p] \in Row \cup {Absent}
      /\ Agrees(was, meant[p], lost[p])
      /\ was = Absent => meant[p] = Absent
      /\ "result" \in lost[p] => "subnet" \in lost[p]
  BY DEF IInv, TypeOK, SavesStand, Tidy
<1>4. /\ Committed(c, p, row)
      /\ meant' = [meant EXCEPT ![p] = IF @ = Absent THEN rec ELSE Heal(changed)]
      /\ apart' = StillApart
      /\ lost' = lost /\ held' = held
      /\ served' = served + 1
  BY DEF Put
<1>5. meant[p] # Absent =>
        /\ changed \in Row
        /\ changed.subnet = s /\ changed.apps = apps
        /\ changed.result = meant[p].result
        /\ changed.on = meant[p].on /\ changed.files = meant[p].files
  BY <1>1, <1>3 DEF Row
<1> HIDE DEF rec, was
<1>6. /\ row \in Row
      /\ row.result = IF was # Absent THEN was.result ELSE None
      /\ row.subnet = IF row.result = None THEN s ELSE row.result.subnet
      /\ row.apps = apps
      /\ row.on = IF was # Absent /\ was.on # 0 THEN was.on ELSE 0
      /\ row.files = IF was # Absent /\ was.on # 0 THEN was.files ELSE 0
  BY <1>2, <1>3, UpsertFields DEF Kept
<1>7. Heal(row) = row
  BY <1>2, <1>3, UpsertHealed
<1> HIDE DEF row, changed
<1>8. /\ meant'[p] = IF meant[p] = Absent THEN rec ELSE Heal(changed)
      /\ meant' \in [Profiles -> Row \cup {Absent}]
      /\ \A q \in Profiles \ {p} : meant'[q] = meant[q]
  BY <1>2, <1>4, <1>5, HealFields DEF IInv, TypeOK
<1>9. Agrees(row, meant'[p], lost'[p])
  <2>1. CASE "row" \in lost[p]
    BY <1>4, <2>1 DEF Agrees
  <2>2. CASE "row" \notin lost[p] /\ was = Absent
    BY <1>2, <1>3, <1>6, <1>8, <2>2 DEF Agrees, Assumptions
  <2>3. CASE "row" \notin lost[p] /\ was # Absent
    <3>1. meant[p] \in Row /\ meant[p] # Absent
      BY <1>3, <2>3 DEF Agrees
    <3>2. /\ meant'[p] \in Row
          /\ meant'[p].result = meant[p].result
          /\ meant'[p].subnet = IF meant[p].result = None THEN s
                                ELSE meant[p].result.subnet
          /\ meant'[p].apps = apps
          /\ meant'[p].on = meant[p].on /\ meant'[p].files = meant[p].files
      BY <1>5, <1>8, <3>1, HealFields
    <3>3. /\ "result" \notin lost[p] => was.result = meant[p].result
          /\ "on" \notin lost[p] =>
                /\ was.on = meant[p].on
                /\ meant[p].on # 0 => was.files = meant[p].files
      BY <1>3, <2>3 DEF Agrees
    <3>4. row # Absent /\ meant'[p] # Absent /\ lost'[p] = lost[p]
      BY <1>4, <1>6, <3>2 DEF Assumptions
    <3>5. "on" \notin lost[p] =>
            /\ row.on = meant'[p].on
            /\ meant'[p].on # 0 => row.files = meant'[p].files
      BY <1>6, <2>3, <3>2, <3>3
    <3> QED BY <1>3, <1>6, <2>3, <3>2, <3>3, <3>4, <3>5 DEF Agrees
  <2> QED BY <2>1, <2>2, <2>3
<1>10. /\ served' \in Nat /\ held' \in [Profiles -> SUBSET Result]
       /\ lost' \in [Profiles -> SUBSET (Fields \cup {"row"})]
  BY <1>4 DEF IInv, TypeOK
<1> QED
  BY <1>3, <1>4, <1>6, <1>7, <1>8, <1>9, <1>10, CommitKeeps

LEMMA InsertKeeps ==
    ASSUME Assumptions, IInv, NEW c \in Calls, Insert(c)
    PROVE  IInv'
<1> DEFINE k == call[c]
           p == k.profile
           rec == [Seed EXCEPT !.subnet = k.subnet]
           was == rows[p]
           row == Upsert(was, rec)
           pairs == IF k.crowded THEN {} ELSE {{p, q} : q \in Live(rows) \ {p}}
<1>1. k.pc = "checked"
  BY DEF Insert
<1>2. k \in Request /\ p \in Profiles /\ k.subnet \in Nat
  BY <1>1 DEF IInv, TypeOK, Idle, Request
<1>3. /\ rec \in Row
      /\ rec.subnet = k.subnet /\ rec.apps = 0 /\ rec.result = None
      /\ rec.on = 0 /\ rec.files = 0
  BY <1>2, RowTypes DEF Seed, Row
<1>4. /\ Committed(c, p, row)
      /\ meant' = [meant EXCEPT ![p] = rec]
      /\ lost' = [lost EXCEPT ![p] = IF k.late THEN Fields ELSE {}]
      /\ apart' = StillApart \cup pairs
      /\ served' = served /\ held' = held
  BY DEF Insert
<1>5. ~k.late => was = Absent
  BY <1>1 DEF IInv, Readers
<1>6. ~k.crowded => /\ \A q \in Live(rows) : rows[q].subnet # k.subnet
                    /\ was = Absent
  BY <1>1 DEF IInv, Choosers
<1>7. was \in Row \cup {Absent}
  BY <1>2 DEF IInv, TypeOK
<1> HIDE DEF k, rec, was, p
<1>8. /\ row \in Row
      /\ was = Absent => /\ row.subnet = k.subnet /\ row.result = None
                         /\ row.apps = 0 /\ row.on = 0 /\ row.files = 0
  BY <1>3, <1>7, UpsertFields DEF Kept
<1>9. Heal(row) = row
  BY <1>3, <1>7, UpsertHealed
<1>10. /\ meant'[p] = rec
       /\ meant' \in [Profiles -> Row \cup {Absent}]
       /\ \A q \in Profiles \ {p} : meant'[q] = meant[q] /\ lost'[q] = lost[q]
       /\ lost'[p] = IF k.late THEN Fields ELSE {}
       /\ lost' \in [Profiles -> SUBSET (Fields \cup {"row"})]
  BY <1>2, <1>3, <1>4 DEF IInv, TypeOK, Fields
<1>11. Agrees(row, meant'[p], lost'[p])
  BY <1>3, <1>5, <1>8, <1>10 DEF Agrees, Assumptions, Fields
<1>12. \A pair \in apart' : pair \in StillApart \/ Free(pair, p)
  <2> SUFFICES ASSUME NEW pair \in pairs PROVE Free(pair, p)
    BY <1>4
  <2>1. ~k.crowded
    OBVIOUS
  <2>2. PICK q \in Live(rows) \ {p} : pair = {p, q}
    OBVIOUS
  <2>3. rows'[p].subnet = k.subnet
    BY <1>2, <1>4, <1>6, <1>8, <2>1, RowsAfterCommit DEF IInv
  <2> QED
    BY <1>6, <2>1, <2>2, <2>3 DEF Free, Live
<1>13. /\ served' \in Nat /\ held' \in [Profiles -> SUBSET Result]
       /\ "result" \in lost'[p] => "subnet" \in lost'[p]
  BY <1>4, <1>10 DEF IInv, TypeOK, Fields
<1> HIDE DEF row, pairs
<1> QED
  BY <1>2, <1>4, <1>8, <1>9, <1>10, <1>11, <1>12, <1>13, CommitKeeps

-----------------------------------------------------------------------------
(* The steps that leave the table alone change one request at most.        *)
LEMMA OneCallKeeps ==
    ASSUME IInv, NEW c \in Calls, NEW k \in Request \cup {Idle},
           call' = [call EXCEPT ![c] = k],
           UNCHANGED <<rows, held, meant, lost, apart>>,
           served' \in Nat,
           k.pc = "read" =>
              /\ k.rec # Absent
              /\ k.op # "create"
              /\ ~k.late => k.rec = rows[k.profile],
           k.pc = "checked" => rows[k.profile] = Absent,
           k.pc \in {"chosen", "checked"} =>
              /\ k.op = "create"
              /\ ~k.crowded => \A q \in Live(rows) : rows[q].subnet # k.subnet
    PROVE  IInv'
<1>1. /\ call'[c] = k
      /\ \A d \in Calls \ {c} : call'[d] = call[d]
      /\ call' \in [Calls -> Request \cup {Idle}]
  BY DEF IInv, TypeOK
<1>2. TypeOK'
  BY <1>1 DEF IInv, TypeOK
<1>3. Readers'
  BY <1>1 DEF IInv, Readers
<1>4. Choosers'
  BY <1>1 DEF IInv, Choosers, Live
<1>5. Tidy' /\ SavesStand' /\ PairsLive' /\ SubnetsApart'
  BY DEF IInv, Tidy, SavesStand, Agrees, PairsLive, SubnetsApart
<1> QED
  BY <1>2, <1>3, <1>4, <1>5 DEF IInv

(* The subnet of a new profile is in use nowhere. *)
LEMMA AllocateFree ==
    ASSUME Assumptions, 1..MaxSubnet \ Used # {}, NEW s \in 1..MaxSubnet
    PROVE  Allocate(s) \in 1..MaxSubnet \ Used
<1> DEFINE S == 1..MaxSubnet \ Used
<1>1. S \subseteq Nat
  BY DEF Assumptions
<1>2. PICK t \in S : \A u \in S : <<u, t>> \notin OpToRel(<, Nat)
  <2> HIDE DEF S
  <2>1. S # {}
    BY DEF S
  <2> QED
    BY <1>1, <2>1, WFMin, NatLessThanWellFounded, Zenon
<1>3. \A u \in S : ~(u < t)
  <2> HIDE DEF S
  <2> QED
    BY <1>1, <1>2, Zenon DEF OpToRel
<1>4. \A u \in S : t <= u
  BY <1>1, <1>3
<1> QED
  BY <1>4 DEF Allocate

LEMMA ReadKeeps ==
    ASSUME Assumptions, IInv, NEW c \in Calls, NEW p \in Profiles,
           NEW s \in 1..MaxSubnet, NEW op \in Operations,
           NEW sent \in Sent(op, p), Read(c, op, p, s, sent)
    PROVE  IInv'
<1> DEFINE k == [pc |-> "read", op |-> op, profile |-> p, subnet |-> s,
                 number |-> served + 1, sent |-> sent, rec |-> rows[p],
                 late |-> FALSE, crowded |-> FALSE]
<1>1. op # "create"
  BY DEF Operations
<1>2. call' = [call EXCEPT ![c] = k] /\ served' = served + 1
  BY <1>1 DEF Read, Begin
<1>s. sent \in Result
  BY RowTypes DEF Sent, IInv, TypeOK
<1>3. k \in Request /\ served' \in Nat
  BY <1>2, <1>s DEF IInv, TypeOK, Request, Assumptions
<1>4. rows[p] # Absent /\ UNCHANGED <<rows, held, meant, lost, apart>>
  BY DEF Read
<1>5. /\ k.pc = "read" /\ k.rec # Absent /\ k.op # "create"
      /\ k.rec = rows[k.profile]
  BY <1>1, <1>4
<1> HIDE DEF k
<1> QED
  BY <1>2, <1>3, <1>4, <1>5, OneCallKeeps

LEMMA ChooseKeeps ==
    ASSUME Assumptions, IInv, NEW c \in Calls, NEW p \in Profiles,
           NEW s \in 1..MaxSubnet, Choose(c, p, s)
    PROVE  IInv'
<1> DEFINE k == [pc |-> "chosen", op |-> "create", profile |-> p,
                 subnet |-> Allocate(s), number |-> served + 1, sent |-> None,
                 rec |-> rows[p], late |-> FALSE, crowded |-> FALSE]
<1>1. Allocate(s) \in 1..MaxSubnet \ Used
  BY AllocateFree DEF Choose
<1>2. call' = [call EXCEPT ![c] = k] /\ served' = served + 1
  BY DEF Choose, Begin
<1>3. k \in Request /\ served' \in Nat
  BY <1>1, <1>2, RowTypes DEF IInv, TypeOK, Request, Assumptions
<1>4. UNCHANGED <<rows, held, meant, lost, apart>>
  BY DEF Choose
<1>5. /\ k.pc = "chosen" /\ k.op = "create"
      /\ \A q \in Live(rows) : rows[q].subnet # k.subnet
  BY <1>1 DEF Used
<1> HIDE DEF k
<1> QED
  BY <1>2, <1>3, <1>4, <1>5, OneCallKeeps

LEMMA SolveUnsavedKeeps ==
    ASSUME Assumptions, IInv, NEW c \in Calls, NEW p \in Profiles,
           NEW s \in 1..MaxSubnet, SolveUnsaved(c, p, s)
    PROVE  IInv'
<1>1. /\ held' = [held EXCEPT ![p] = @ \cup {[by |-> served + 1, subnet |-> s]}]
      /\ served' = served + 1
      /\ UNCHANGED <<rows, call, meant, lost, apart>>
  BY DEF SolveUnsaved
<1>2. TypeOK'
  BY <1>1 DEF IInv, TypeOK, Assumptions
<1> QED
  BY <1>1, <1>2 DEF IInv, Readers, Tidy, SavesStand, Agrees, Choosers,
                    PairsLive, SubnetsApart, Live

LEMMA CheckKeeps ==
    ASSUME Assumptions, IInv, NEW c \in Calls, Check(c)
    PROVE  IInv'
<1> DEFINE k == call[c]
           next == [k EXCEPT !.pc = "checked", !.late = FALSE]
<1>1. k.pc = "chosen" /\ k \in Request /\ k.op = "create"
  BY DEF IInv, Check, TypeOK, Idle, Readers
<1>2. served' \in Nat /\ UNCHANGED <<rows, held, meant, lost, apart>>
  BY DEF IInv, Check, TypeOK
<1>3. CASE rows[k.profile] # Absent
  <2>1. call' = [call EXCEPT ![c] = Idle]
    BY <1>3 DEF Check
  <2>2. Idle.pc = "idle"
    BY DEF Idle
  <2> QED
    BY <1>2, <2>1, <2>2, OneCallKeeps
<1>4. CASE rows[k.profile] = Absent
  <2>1. call' = [call EXCEPT ![c] = next]
    BY <1>4 DEF Check
  <2>2. ~k.crowded => \A q \in Live(rows) : rows[q].subnet # k.subnet
    BY <1>1 DEF IInv, Choosers
  <2> HIDE DEF k
  <2>3. /\ next \in Request /\ next.pc = "checked"
        /\ next.op = k.op /\ next.profile = k.profile
        /\ next.subnet = k.subnet /\ next.crowded = k.crowded
    BY <1>1 DEF Request
  <2> HIDE DEF next
  <2> QED
    BY <1>1, <1>2, <1>4, <2>1, <2>2, <2>3, OneCallKeeps
<1> QED BY <1>3, <1>4

LEMMA DeleteKeeps ==
    ASSUME Assumptions, IInv, NEW c \in Calls, NEW p \in Profiles, Delete(c, p)
    PROVE  IInv'
<1> DEFINE last == Live(rows) = {p}
<1>1. /\ served' \in Nat /\ held' = held
      /\ apart' = StillApart
      /\ lost' = [q \in Profiles |-> IF q = p \/ last THEN {} ELSE lost[q]]
  <2>1. served' = served + 1 /\ held' = held
    BY DEF Delete
  <2>2. served' \in Nat
    BY <2>1 DEF IInv, TypeOK
  <2>3. apart' = StillApart
    BY DEF Delete
  <2>4. lost' = [q \in Profiles |-> IF q = p \/ last THEN {} ELSE lost[q]]
    BY Zenon DEF Delete
  <2> QED BY <2>1, <2>2, <2>3, <2>4
<1>2. /\ rows' = IF last THEN [rows EXCEPT ![p] = Absent, ![Builtin] = Seed]
                 ELSE [rows EXCEPT ![p] = Absent]
      /\ meant' = IF last THEN [meant EXCEPT ![p] = Absent, ![Builtin] = Seed]
                  ELSE [meant EXCEPT ![p] = Absent]
  BY DEF Delete
<1>3. /\ rows' \in [Profiles -> Row \cup {Absent}]
      /\ meant' \in [Profiles -> Row \cup {Absent}]
      /\ lost' \in [Profiles -> SUBSET (Fields \cup {"row"})]
  BY <1>1, <1>2, RowTypes DEF IInv, TypeOK
<1>4. \A q \in Profiles :
        \/ rows'[q] = Seed /\ meant'[q] = Seed /\ lost'[q] = {}
        \/ rows'[q] = Absent /\ meant'[q] = Absent /\ lost'[q] = {}
        \/ rows'[q] = rows[q] /\ meant'[q] = meant[q] /\ lost'[q] = lost[q]
  <2> SUFFICES ASSUME NEW q \in Profiles
               PROVE  \/ rows'[q] = Seed /\ meant'[q] = Seed /\ lost'[q] = {}
                      \/ rows'[q] = Absent /\ meant'[q] = Absent /\ lost'[q] = {}
                      \/ rows'[q] = rows[q] /\ meant'[q] = meant[q]
                         /\ lost'[q] = lost[q]
    OBVIOUS
  <2>1. CASE last
    <3>1. q # p => rows[q] = Absent /\ meant[q] = Absent
      BY <2>1 DEF IInv, Tidy, Live
    <3> QED
      BY <1>1, <1>2, <2>1, <3>1 DEF IInv, TypeOK, Assumptions
  <2>2. CASE ~last
    BY <1>1, <1>2, <2>2 DEF IInv, TypeOK
  <2> QED BY <2>1, <2>2
<1> HIDE DEF last
<1>5. \A d \in Calls :
        /\ call[d].pc = "idle" => call'[d] = call[d]
        /\ call[d].pc # "idle" =>
              /\ call'[d] \in Request
              /\ call'[d].pc = call[d].pc /\ call'[d].op = call[d].op
              /\ call'[d].profile = call[d].profile
              /\ call'[d].rec = call[d].rec
              /\ call'[d].crowded
              /\ ~call'[d].late =>
                    /\ ~call[d].late
                    /\ rows'[call[d].profile] = rows[call[d].profile]
  <2> SUFFICES ASSUME NEW d \in Calls, call[d].pc # "idle"
               PROVE  /\ call'[d] \in Request
                      /\ call'[d].pc = call[d].pc /\ call'[d].op = call[d].op
                      /\ call'[d].profile = call[d].profile
                      /\ call'[d].rec = call[d].rec
                      /\ call'[d].crowded
                      /\ ~call'[d].late =>
                            /\ ~call[d].late
                            /\ rows'[call[d].profile] = rows[call[d].profile]
    BY DEF Delete
  <2> DEFINE late == call[d].late
                     \/ rows'[call[d].profile] # rows[call[d].profile]
  <2>1. call[d] \in Request
    BY DEF IInv, TypeOK, Idle
  <2>2. call'[d] = [call[d] EXCEPT !.late = late, !.crowded = TRUE]
    BY DEF Delete
  <2>3. late \in BOOLEAN
    OBVIOUS
  <2> HIDE DEF late
  <2>4. /\ call'[d] \in Request
        /\ call'[d].pc = call[d].pc /\ call'[d].op = call[d].op
        /\ call'[d].profile = call[d].profile
        /\ call'[d].rec = call[d].rec
        /\ call'[d].crowded
        /\ call'[d].late = late
    BY <2>1, <2>2, <2>3 DEF Request
  <2>5. ~call'[d].late => ~late
    BY <2>4, Zenon
  <2>6. ~late => /\ ~call[d].late
                 /\ rows'[call[d].profile] = rows[call[d].profile]
    BY Zenon DEF late
  <2> QED BY <2>4, <2>5, <2>6
<1>6. call' \in [Calls -> Request \cup {Idle}]
  <2>1. call' = [d \in Calls |-> call'[d]]
    BY DEF Delete
  <2>2. \A d \in Calls : call'[d] \in Request \cup {Idle}
    BY <1>5 DEF IInv, TypeOK
  <2> QED BY <2>1, <2>2
<1>7. TypeOK'
  BY <1>1, <1>3, <1>6 DEF IInv, TypeOK, StillApart
<1>8. Readers'
  BY <1>5 DEF IInv, Readers
<1>9. Choosers'
  BY <1>5 DEF Choosers
<1>10. Tidy'
  <2>1. Heal(Seed) = Seed /\ Seed # Absent
    BY RowTypes DEF Heal, Seed, Assumptions
  <2> QED BY <1>4, <2>1 DEF IInv, Tidy
<1>11. SavesStand'
  BY <1>4 DEF IInv, SavesStand, Agrees
<1>12. PairsLive' /\ SubnetsApart'
  BY <1>1 DEF IInv, PairsLive, SubnetsApart, StillApart
<1> QED
  BY <1>7, <1>8, <1>9, <1>10, <1>11, <1>12 DEF IInv

LEMMA StepKeeps ==
    ASSUME Assumptions, IInv, [StoreNext]_storeVars
    PROVE  IInv'
<1>1. CASE UNCHANGED storeVars
  BY <1>1 DEF storeVars, IInv, TypeOK, Readers, Tidy, SavesStand, Agrees,
              Choosers, PairsLive, SubnetsApart, Live
<1>2. ASSUME NEW c \in Calls, UpdateColumns(c),
             rows[call[c].profile] = Absent
      PROVE  IInv'
  <2>1. /\ call' = [call EXCEPT ![c] = Idle]
        /\ UNCHANGED <<rows, held, meant, lost, apart, served>>
    BY <1>2 DEF UpdateColumns
  <2>2. Idle.pc = "idle" /\ served' \in Nat
    BY <2>1 DEF Idle, IInv, TypeOK
  <2> QED BY <2>1, <2>2, OneCallKeeps
<1> QED
  BY <1>1, <1>2, SaveKeeps, UpdateKeeps, PutKeeps, InsertKeeps, ReadKeeps,
     ChooseKeeps, SolveUnsavedKeeps, CheckKeeps, DeleteKeeps DEF StoreNext

LEMMA InitKeeps ==
    ASSUME Assumptions, StoreInit
    PROVE  IInv
<1> DEFINE first == [Seed EXCEPT !.result = [by |-> 0, subnet |-> 1]]
<1>1. /\ first \in Row /\ Heal(first) = first
      /\ Seed \in Row /\ Heal(Seed) = Seed
  <2> DEFINE result == [by |-> 0, subnet |-> 1]
  <2>1. result \in Result /\ result # None
        /\ result.subnet = 1
    BY DEF None
  <2>2. first = [subnet |-> 1, result |-> result, apps |-> 0, on |-> 0,
                 files |-> 0]
    BY DEF Seed
  <2> HIDE DEF first, result
  <2>3. first \in Row /\ [first EXCEPT !.subnet = first.result.subnet] = first
        /\ first.result # None
    BY <2>1, <2>2 DEF Row
  <2>4. Heal(first) = first
    BY <2>3 DEF Heal
  <2>5. Seed \in Row /\ Heal(Seed) = Seed
    BY RowTypes DEF Seed, Heal
  <2> QED BY <2>3, <2>4, <2>5
<1>2. \A p \in Profiles : rows[p] \in {Seed, first, Absent}
  BY DEF StoreInit
<1>3. Seed # Absent /\ first # Absent
  BY <1>1 DEF Assumptions
<1> HIDE DEF first
<1>4. rows \in [Profiles -> Row \cup {Absent}]
  BY <1>1, <1>2 DEF StoreInit
<1>5. TypeOK
  <2>1. held \in [Profiles -> SUBSET Result]
    BY <1>1, <1>2 DEF StoreInit, Row, Assumptions
  <2> QED BY <1>4, <2>1 DEF StoreInit, TypeOK
<1>6. Readers /\ Choosers
  BY DEF StoreInit, Readers, Choosers, Idle
<1>7. Tidy
  BY <1>1, <1>2 DEF StoreInit, Tidy
<1>8. SavesStand
  BY DEF StoreInit, SavesStand, Agrees
<1>9. PairsLive /\ SubnetsApart
  BY DEF StoreInit, PairsLive, SubnetsApart
<1> QED
  BY <1>5, <1>6, <1>7, <1>8, <1>9 DEF IInv

(* What was saved in a profile's row stands until a request means to change *)
(* it, and what overlapping requests may lose is what they read before.     *)
THEOREM StandingSaves ==
    ASSUME Assumptions
    PROVE  StoreSpec => []SavesStand
<1>1. StoreInit => IInv
  BY InitKeeps
<1>2. IInv /\ [StoreNext]_storeVars => IInv'
  BY StepKeeps
<1>3. IInv => SavesStand
  BY DEF IInv
<1> QED
  BY <1>1, <1>2, <1>3, PTL DEF StoreSpec

(* A created profile is alone with its subnet unless requests overlapped.  *)
THEOREM OwnSubnets ==
    ASSUME Assumptions
    PROVE  StoreSpec => []SubnetsApart
<1>1. StoreInit => IInv
  BY InitKeeps
<1>2. IInv /\ [StoreNext]_storeVars => IInv'
  BY StepKeeps
<1>3. IInv => SubnetsApart
  BY DEF IInv
<1> QED
  BY <1>1, <1>2, <1>3, PTL DEF StoreSpec
=============================================================================
