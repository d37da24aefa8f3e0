---------------------------- MODULE ProfileStore ----------------------------
(***************************************************************************)
(* The rows of profile_store.py and the requests that change them: the     *)
(* routes of a profile, the PL solve that attaches its result, and the     *)
(* deployment that records what it did.  Each transaction is atomic, but   *)
(* most requests read a row in one and write in another what they have     *)
(* read with a change of their own.                                        *)
(*                                                                         *)
(* A field holds the number of the request that set it, 0 for a default.   *)
(* Slices, network and nodes go the way of apps, DNN prefixes the way of   *)
(* subnets, and are left out.  A PUT is the interface's: it carries no     *)
(* result and no deploy fields.  A deployment carries the result its page  *)
(* holds, which need not be the row's.  Every operation first writes the   *)
(* identity of a result back to its row (init_db): rows are shown healed.  *)
(***************************************************************************)
EXTENDS Naturals, FiniteSets

CONSTANTS
    Profiles,    \* profile names
    Builtin,     \* the one that is seeded
    Calls,       \* threads that serve requests
    MaxSubnet,   \* bound: subnets are 1..MaxSubnet, 1 is the builtin's
    MaxRequests, \* bound: requests; their numbers name what they write
    Absent

VARIABLES
    rows,    \* the table: the row of each profile, or Absent
    call,    \* call[c]: the request a thread serves, and what it has read
    served,  \* number of requests so far
    held,    \* external: the results of p that some page may show
    meant,   \* ghost: the row as the requests for it meant it to be
    lost,    \* ghost: its fields that overlapping requests may have lost
    apart    \* ghost: pairs of profiles whose subnets a create set apart

storeVars == <<rows, call, served, held, meant, lost, apart>>

-----------------------------------------------------------------------------
None == [by |-> 0, subnet |-> 0]

Fields == {"subnet", "result", "apps", "on"}

Seed == [subnet |-> 1, result |-> None, apps |-> 0, on |-> 0, files |-> 0]

Idle == [pc |-> "idle"]

(* _row_to_record: "Heal stale identity columns from the last successful   *)
(* PL result."                                                             *)
Heal(row) ==
    IF row.result = None THEN row ELSE [row EXCEPT !.subnet = row.result.subnet]

(* Before the first request somebody may have solved and rendered.         *)
StoreInit ==
    /\ \E first \in {Seed, [Seed EXCEPT !.result = [by |-> 0, subnet |-> 1]]} :
          rows = [p \in Profiles |-> IF p = Builtin THEN first ELSE Absent]
    /\ call = [c \in Calls |-> Idle]
    /\ served = 0
    /\ held = [p \in Profiles |->
         IF p = Builtin THEN {rows[p].result} \ {None} ELSE {}]
    /\ meant = rows
    /\ lost = [p \in Profiles |-> {}]
    /\ apart = {}

Live(table) == {p \in Profiles : table[p] # Absent}

Used == {rows[p].subnet : p \in Live(rows)}

(* Mutant: a save of a record without deploy fields clears them. *)
Upsert_ClearsDeploy(old, rec) ==
    IF old = Absent THEN Heal(rec)
    ELSE Heal([rec EXCEPT !.result = IF @ = None THEN old.result ELSE @])

(* _upsert_conn: a record without a result, or without deploy fields when  *)
(* the row is deployed, keeps those of the row.                            *)
Upsert(old, rec) ==
    LET kept == /\ old # Absent /\ old.on # 0
                /\ rec.on = 0 /\ rec.files = 0
    IN  Heal([rec EXCEPT
                !.result = IF @ = None /\ old # Absent THEN old.result ELSE @,
                !.on = IF kept THEN old.on ELSE @,
                !.files = IF kept THEN old.files ELSE @])

-----------------------------------------------------------------------------
(* What a transaction of call c on the row of p does besides: the requests *)
(* that have read the row are late now, those that have chosen a subnet    *)
(* for another profile may not find it free, and the request is over.      *)
Committed(c, p, row) ==
    /\ rows' = [rows EXCEPT ![p] = row]
    /\ call' = [d \in Calls |->
         IF d = c THEN Idle
         ELSE IF call[d].pc = "idle" THEN call[d]
         ELSE [call[d] EXCEPT !.late = @ \/ call[d].profile = p,
                              !.crowded = @ \/ row # rows[p]]]

(* Pairs with a profile whose subnet changes are no longer set apart.      *)
StillApart ==
    {pair \in apart : \A q \in pair :
        rows'[q] # Absent /\ rows'[q].subnet = rows[q].subnet}

Begin(c, op, p, s, sent) ==
    /\ call[c].pc = "idle" /\ served < MaxRequests
    /\ served' = served + 1
    /\ call' = [call EXCEPT ![c] =
         [pc |-> IF op = "create" THEN "chosen" ELSE "read",
          op |-> op, profile |-> p, subnet |-> s, number |-> served + 1,
          sent |-> sent, rec |-> rows[p], late |-> FALSE, crowded |-> FALSE]]

(* What a request carries: a page deploys, and renders, only with a result *)
(* it holds (onDeploy, onGenerate; render_profile refuses a failed one); a *)
(* push, which is recorded like a deployment, and the rest carry none.     *)
Sent(op, p) ==
    CASE op = "dry" -> held[p]
      [] op = "apply" -> held[p] \cup {None}
      [] OTHER -> {None}

(* get_profile, which most operations begin with; the others answer 404.   *)
Read(c, op, p, s, sent) ==
    /\ rows[p] # Absent
    /\ op = "solve" \/ s = rows[p].subnet
    /\ Begin(c, op, p, s, sent)
    /\ UNCHANGED <<rows, held, meant, lost, apart>>

(* The result of a solve. *)
Solution(k) == [by |-> k.number, subnet |-> k.subnet]

(* save_pl_result: "no-op if profile missing", but the page has the result. *)
SolveUnsaved(c, p, s) ==
    /\ call[c].pc = "idle" /\ served < MaxRequests
    /\ rows[p] = Absent
    /\ served' = served + 1
    /\ held' = [held EXCEPT ![p] = @ \cup {[by |-> served + 1, subnet |-> s]}]
    /\ UNCHANGED <<rows, call, meant, lost, apart>>

(* save_profile_applications, update_application_deploy_status and         *)
(* save_pl_result write the whole record they have read.                   *)
Changed(k) ==
    IF k.op = "apps" THEN [k.rec EXCEPT !.apps = k.number]
    ELSE [k.rec EXCEPT !.subnet = k.subnet, !.result = Solution(k)]

SaveRecord(c) ==
    LET k == call[c]
        p == k.profile
        own == IF k.op = "apps" THEN {"apps"} ELSE {"subnet", "result"}
        old == {"subnet", "apps"}
               \cup (IF k.rec.result # None THEN {"result"} ELSE {})
               \cup (IF k.rec.on # 0 \/ k.rec.files # 0 THEN {"on"} ELSE {})
    IN  /\ k.pc = "read" /\ k.op \in {"apps", "solve"}
        /\ Committed(c, p, Upsert(rows[p], Changed(k)))
        /\ meant' = [meant EXCEPT ![p] =
             IF @ = Absent THEN @
             ELSE IF k.op = "apps" THEN [@ EXCEPT !.apps = k.number]
             ELSE [@ EXCEPT !.subnet = k.subnet, !.result = Solution(k)]]
        /\ held' = [held EXCEPT ![p] =
             @ \cup (IF k.op = "solve" THEN {Solution(k)} ELSE {})]
        /\ lost' = [lost EXCEPT ![p] =
             @ \cup (IF k.late THEN old \ own ELSE {})
               \cup (IF rows[p] = Absent THEN {"row"} ELSE {})]
        /\ apart' = StillApart
        /\ UNCHANGED served

(* restore_profile_defaults sets all columns but the deploy columns; what  *)
(* a deployment (apply, push), a dry or failed one, or an undeploy saves   *)
(* with save_deploy_state are these and the result: the one that was sent, *)
(* else the one that was read.                                             *)
Recorded(k, row) ==
    IF k.op = "restore"
    THEN [Seed EXCEPT !.on = row.on, !.files = row.files]
    ELSE [row EXCEPT !.result = IF k.sent # None THEN k.sent ELSE k.rec.result,
                     !.on = CASE k.op = "apply" -> k.number
                              [] k.op = "dry" -> k.rec.on
                              [] k.op = "undeploy" -> 0,
                     !.files = IF k.op = "undeploy" THEN 0 ELSE k.number]

(* Ghost: the columns of row m that the request k is about; it attaches    *)
(* the result that is sent with it, and no other.                          *)
Meant(k, m) ==
    LET with == IF k.sent = None THEN m
                ELSE [m EXCEPT !.result = k.sent, !.subnet = k.sent.subnet]
    IN  CASE k.op = "restore" -> [Seed EXCEPT !.on = m.on, !.files = m.files]
          [] k.op = "apply" -> [with EXCEPT !.on = k.number, !.files = k.number]
          [] k.op = "dry" -> [with EXCEPT !.files = k.number]
          [] k.op = "undeploy" -> [with EXCEPT !.on = 0, !.files = 0]

UpdateColumns(c) ==
    LET k == call[c]
        p == k.profile
        old == IF k.op = "restore" THEN {}
               ELSE (IF k.sent = None THEN {"subnet", "result"} ELSE {})
                    \cup (IF k.op = "dry" THEN {"on"} ELSE {})
    IN  /\ k.pc = "read" /\ k.op \in {"apply", "dry", "undeploy", "restore"}
        /\ IF rows[p] = Absent
           THEN /\ call' = [call EXCEPT ![c] = Idle]
                /\ UNCHANGED <<rows, meant, lost, apart>>
           ELSE /\ Committed(c, p, Heal(Recorded(k, rows[p])))
                /\ meant' = [meant EXCEPT ![p] =
                     IF @ = Absent THEN @ ELSE Meant(k, @)]
                /\ lost' = [lost EXCEPT ![p] =
                              @ \cup (IF k.late THEN old ELSE {})]
                /\ apart' = StillApart
        /\ UNCHANGED <<served, held>>

-----------------------------------------------------------------------------
(* Mutant: the requested subnet is taken without a look at the others. *)
Allocate_Requested(s) == s

(* allocate_multus_subnet_for_create: "Keep requested if free; otherwise   *)
(* next free".                                                             *)
Allocate(s) ==
    IF s \notin Used THEN s
    ELSE CHOOSE t \in 1..MaxSubnet \ Used :
            \A u \in 1..MaxSubnet \ Used : t <= u

Choose(c, p, s) ==
    /\ 1..MaxSubnet \ Used # {}
    /\ Begin(c, "create", p, Allocate(s), None)
    /\ UNCHANGED <<rows, held, meant, lost, apart>>

(* create_profile: 409 if the name is taken. *)
Check(c) ==
    /\ call[c].pc = "chosen"
    /\ call' = [call EXCEPT ![c] =
         IF rows[@.profile] # Absent THEN Idle
         ELSE [@ EXCEPT !.pc = "checked", !.late = FALSE]]
    /\ UNCHANGED <<rows, served, held, meant, lost, apart>>

Insert(c) ==
    LET k == call[c]
        p == k.profile
        rec == [Seed EXCEPT !.subnet = k.subnet]
    IN  /\ k.pc = "checked"
        /\ Committed(c, p, Upsert(rows[p], rec))
        /\ meant' = [meant EXCEPT ![p] = rec]
        /\ lost' = [lost EXCEPT ![p] = IF k.late THEN Fields ELSE {}]
        /\ apart' = StillApart \cup
             (IF k.crowded THEN {} ELSE {{p, q} : q \in Live(rows) \ {p}})
        /\ UNCHANGED <<served, held>>

(* PUT: one transaction; without applications they go back to the default. *)
Put(c, p, s, apps) ==
    LET rec == [Seed EXCEPT !.subnet = s, !.apps = apps]
    IN  /\ call[c].pc = "idle" /\ served < MaxRequests
        /\ served' = served + 1
        /\ apps \in {0, served + 1}
        /\ Committed(c, p, Upsert(rows[p], rec))
        /\ meant' = [meant EXCEPT ![p] =
             IF @ = Absent THEN rec
             ELSE Heal([@ EXCEPT !.subnet = s, !.apps = apps])]
        /\ apart' = StillApart
        /\ UNCHANGED <<held, lost>>

(* DELETE: "If the DB would be empty, the builtin profile is re-seeded."   *)
Delete(c, p) ==
    LET gone(table) ==
            IF Live(rows) = {p}
            THEN [table EXCEPT ![p] = Absent, ![Builtin] = Seed]
            ELSE [table EXCEPT ![p] = Absent]
    IN  /\ call[c].pc = "idle" /\ served < MaxRequests
        /\ rows[p] # Absent
        /\ served' = served + 1
        /\ rows' = gone(rows)
        /\ call' = [d \in Calls |->
             IF call[d].pc = "idle" THEN call[d]
             ELSE [call[d] EXCEPT
                     !.late = @ \/ rows'[call[d].profile] # rows[call[d].profile],
                     !.crowded = TRUE]]
        /\ meant' = gone(meant)
        /\ lost' = [q \in Profiles |->
                      IF q = p \/ Live(rows) = {p} THEN {} ELSE lost[q]]
        /\ apart' = StillApart
        /\ UNCHANGED held

Operations == {"apps", "solve", "apply", "dry", "undeploy", "restore"}

StoreNext ==
    \E c \in Calls :
        \/ SaveRecord(c) \/ UpdateColumns(c) \/ Check(c) \/ Insert(c)
        \/ \E p \in Profiles :
              \/ Delete(c, p)
              \/ \E s \in 1..MaxSubnet :
                    \/ Choose(c, p, s)
                    \/ SolveUnsaved(c, p, s)
                    \/ \E op \in Operations : \E sent \in Sent(op, p) :
                          Read(c, op, p, s, sent)
                    \/ \E apps \in {0, served + 1} : Put(c, p, s, apps)

StoreSpec == StoreInit /\ [][StoreNext]_storeVars

-----------------------------------------------------------------------------
(* A row and what it is meant to be, but for the fields that may be lost.  *)
(* The files of a profile that is not deployed are those of a dry run,     *)
(* which a PUT clears.                                                     *)
Agrees(row, m, l) ==
    \/ "row" \in l
    \/ row = Absent /\ m = Absent
    \/ /\ row # Absent /\ m # Absent
       /\ "subnet" \notin l => row.subnet = m.subnet
       /\ "result" \notin l => row.result = m.result
       /\ "apps" \notin l => row.apps = m.apps
       /\ "on" \notin l =>
             /\ row.on = m.on
             /\ m.on # 0 => row.files = m.files

(* What a request saved stands until another means to change it, however   *)
(* many whole records are written in between. A deployment that carries a  *)
(* result means to attach it and to move the profile to its subnet, be it  *)
(* older than the row's (gitea_apply.py:1438, profile_store.py:691); a     *)
(* push or an undeploy, which carries none, means neither. When requests   *)
(* overlap, an application save or a solve that began before the first     *)
(* result or the first deployment of a profile does not lose either        *)
(* ("Deploy fields: caller may set them; otherwise preserve existing.").   *)
SavesStand == \A p \in Profiles : Agrees(rows[p], meant[p], lost[p])

(* "Per-profile identity is kept: if Multus / DNN collide with an existing *)
(* profile, the next free is assigned": unless requests overlap, a created *)
(* profile shares its subnet with no other until one of the two is given   *)
(* another one.                                                            *)
SubnetsApart ==
    \A pair \in apart : \A p, q \in pair :
        p # q => rows[p].subnet # rows[q].subnet
=============================================================================
