----------------------------- MODULE AddressPlan -----------------------------
(***************************************************************************)
(* The addresses a profile is given: the host octets of its network        *)
(* functions on the profile's own /24 (ip_allocator.py), and those of its  *)
(* UE consoles on the site's /24 (site_ips.py), handed out client after    *)
(* client when the applications of its slices are deployed                 *)
(* (application_deploy.py).                                                *)
(***************************************************************************)
EXTENDS Integers, FiniteSets

CONSTANTS
    PlanSlices,     \* numbers of the slices whose clients are deployed
    Counts,     \* client counts
    MaxDeploys  \* bound: deployments of clients

(* The form of the web interface takes one to ten clients a slice.  The    *)
(* consoles of a seventh slice would begin anew at .225.                   *)
ASSUME PlanAssumptions ==
    /\ PlanSlices \subseteq 1..6
    /\ Counts \subseteq 1..10

VARIABLES
    plan,       \* [n, max]: slices allocated and max_slices; n = 0: none
    consoles,   \* the consoles: [slice, client, octet]
    strayed,    \* ghost: physical AI ran off slice 2, or OTT off slice 3
    deploys     \* deployments so far

planVars == <<plan, consoles, strayed, deploys>>

-----------------------------------------------------------------------------
SharedBases == {1, 2, 3, 10, 11, 12} \cup 200..206

SliceBases == {20 * k : k \in 1..7}

(* _validate_bases: no overflow, disjoint ranges, no shared octet.         *)
ValidBases(max) ==
    /\ \A base \in SliceBases : base + max <= 254
    /\ \A b, c \in SliceBases : b < c => b + max < c + 1
    /\ \A base \in SliceBases :
          ((base + 1)..(base + max)) \cap SharedBases = {}

(* The octets of the plan, by role.                                        *)
Octets(n) == SharedBases \cup {base + i : base \in SliceBases, i \in 1..n}

PlanInit ==
    /\ plan = [n |-> 0, max |-> 0]
    /\ consoles = {}
    /\ strayed = FALSE
    /\ deploys = 0

(* allocate_profile_ips; a plan that is refused changes nothing.           *)
AllocatePlan(n, max) ==
    /\ plan.n = 0 /\ deploys = 0
    /\ n \in 1..max /\ ValidBases(max)
    /\ plan' = [n |-> n, max |-> max]
    /\ UNCHANGED <<consoles, strayed, deploys>>

(* Mutant: clients counted from 0.                                         *)
ConsoleOctet_FromZero(s, c) ==
    LET octet == 220 + 10 * (s - 1) + c
    IN  IF octet >= 255 THEN 200 + (octet - 255) ELSE octet

(* ue_console_ip, before its checks.                                       *)
ConsoleOctet(s, c) ==
    LET octet == 220 + 10 * (s - 1) + c - 1
    IN  IF octet >= 255 THEN 200 + (octet - 255) ELSE octet

(* The checks of ue_console_ip.                                            *)
Refused(octet) == octet \in 210..219 \/ octet > 254

(* cctv_console_ip and iot_console_ip are given the slice, and             *)
(* physical_ai_console_ip and ott_console_ip take the default of their     *)
(* second parameter.                                                       *)
ConsoleSlice(type, s) ==
    CASE type = "physical_ai" -> 2
      [] type = "ott" -> 3
      [] OTHER -> s

(* deploy_application_stream for one slice: its clients one by one, until  *)
(* the first console that is refused, which ends the stream.  kubectl      *)
(* replaces a client that is there, and leaves those beyond the count.     *)
DeployClients(s, type, count) ==
    LET octet(c) == ConsoleOctet(ConsoleSlice(type, s), c)
        done == {c \in 1..count : \A d \in 1..c : ~Refused(octet(d))}
    IN  /\ plan.n = 0 /\ deploys < MaxDeploys
        /\ deploys' = deploys + 1
        /\ strayed' = (strayed \/ ConsoleSlice(type, s) # s)
        /\ consoles' =
              {k \in consoles : k.slice # s \/ k.client \notin done}
              \cup {[slice |-> s, client |-> c, octet |-> octet(c)] : c \in done}
        /\ UNCHANGED plan

(* undeploy_application_stream: the clients with the label of the slice.   *)
RemoveClients(s) ==
    /\ \E k \in consoles : k.slice = s
    /\ consoles' = {k \in consoles : k.slice # s}
    /\ UNCHANGED <<plan, strayed, deploys>>

Types == {"cctv", "physical_ai", "ott"}

PlanNext ==
    \/ \E n, max \in 1..32 : AllocatePlan(n, max)
    \/ \E s \in PlanSlices, type \in Types, count \in Counts :
          DeployClients(s, type, count)
    \/ \E s \in PlanSlices : RemoveClients(s)

PlanSpec == PlanInit /\ [][PlanNext]_planVars

-----------------------------------------------------------------------------
(* The consoles of docs/ip_plan.md: ten for each slice, from .220 on, and  *)
(* after .254 the block from .200 on.                                      *)
Block(s) ==
    IF s <= 3 THEN (210 + 10 * s)..(219 + 10 * s)
    ELSE IF s = 4 THEN 250..254 \cup 200..204 ELSE 205..209

(* An accepted plan gives every role of every slice an address of its own, *)
(* on the /24, that is neither a gateway nor a shared network function.    *)
(* And as long as physical AI runs on slice 2 and OTT on slice 3 only, no  *)
(* two clients have the same console, nor one in the DHCP pool, among the  *)
(* application servers or of another slice: also of five slices, and when  *)
(* the clients do not fit.                                                 *)
AddressesApart ==
    /\ plan.n > 0 => /\ Cardinality(Octets(plan.n)) = 13 + 7 * plan.n
                    /\ Octets(plan.n) \subseteq 1..254
    /\ ~strayed => /\ \A k \in consoles : k.octet \in Block(k.slice)
                   /\ \A k, l \in consoles : k.octet = l.octet => k = l
=============================================================================
