--------------------------- MODULE DeploymentProofs ---------------------------
(***************************************************************************)
(* Proofs about Deployment, for any numbers of requests, profiles and      *)
(* clusters and any number of requests served at a time.                   *)
(*                                                                         *)
(* The properties speak of requests that were answered.  What they rest on *)
(* is where a request stands that no other one for its profile has         *)
(* disturbed: how far it has rendered, removed, committed and pushed       *)
(* (Course).  Requests for other profiles commit and push the same trees,  *)
(* but only towards what the request has left in them (Moved).             *)
(***************************************************************************)
EXTENDS Deployment, TLAPS

Dirs == [ns : Requests \cup {NoOne}, ctl : Requests \cup {NoOne}]
Points == Idle \cup {"render", "controllers", "list", "remove", "removed",
                     "commit", "push", "cleanup", "prior", "saveprior", "save"}

TypeOK ==
    /\ tree \in [Clusters -> [Profiles -> Dirs]]
    /\ head \in [Clusters -> [Profiles -> Dirs]]
    /\ gitea \in [Clusters -> [Profiles -> Dirs]]
    /\ record \in [Profiles -> [deployed : BOOLEAN, files : BOOLEAN]]
    /\ job \in [Requests -> Jobs]
    /\ answered \in [Profiles -> Requests \cup {NoOne}]

Active(r) == job[r].pc \notin Idle

(* A request that says it is alone is the only one for its profile.        *)
AloneIsAlone ==
    \A r, s \in Requests :
        /\ Active(r) /\ job[r].alone
        /\ Active(s) /\ job[s].profile = job[r].profile
        => s = r

-----------------------------------------------------------------------------
Synced(c, p) == head[c][p] = tree[c][p] /\ gitea[c][p] = tree[c][p]

Rendered(r) == [ns |-> r, ctl |-> NoOne]
Complete(r) == [ns |-> r, ctl |-> r]

Publishing == {"apply", "push", "undeploy"}

(* What r has made of the working tree when its script starts.             *)
Left(r, p) ==
    /\ job[r].op = "apply" => \A c \in Clusters : tree[c][p] = Complete(r)
    /\ job[r].op = "undeploy" => \A c \in Clusters : tree[c][p] = Absent
    /\ job[r].op = "push" =>
         (job[r].noted <=> \E c \in Clusters : tree[c][p] # Absent)

Done(r, p) == Left(r, p) /\ \A c \in Clusters : Synced(c, p)

(* Where the handler of r stands says how far r has got. *)
Writing(r, p) ==
    /\ job[r].pc = "render" =>
         /\ job[r].op \in {"apply", "dry"}
         /\ \A c \in Clusters : c < job[r].at => tree[c][p] = Rendered(r)
    /\ job[r].pc = "controllers" =>
         /\ job[r].op \in {"apply", "dry"}
         /\ \A c \in Clusters : tree[c][p] = Rendered(r)
    /\ job[r].pc = "list" => job[r].op = "push"
    /\ job[r].pc = "remove" =>
         /\ job[r].op \in {"undeploy", "clear"}
         /\ \A c \in Clusters : c < job[r].at => tree[c][p] = Absent
    /\ job[r].pc = "removed" =>
         /\ job[r].op \in {"undeploy", "clear"}
         /\ \A c \in Clusters : tree[c][p] = Absent

Publishes(r, p) ==
    /\ job[r].pc \in {"commit", "push"} =>
         /\ job[r].op \in Publishing /\ Published(r)
         /\ Left(r, p)
         /\ \A c \in Clusters : c < job[r].at => Synced(c, p)
    /\ job[r].pc = "push" => head[job[r].at][p] = tree[job[r].at][p]
    /\ job[r].pc = "cleanup" =>
         job[r].op = "undeploy" /\ (Published(r) => Done(r, p))
    /\ job[r].pc = "save" =>
         /\ job[r].op \in Publishing \cup {"clear"}
         /\ job[r].op # "clear" /\ Published(r) => Done(r, p)

Course ==
    \A r \in Requests, p \in Profiles :
        Active(r) /\ job[r].alone /\ job[r].profile = p =>
            Writing(r, p) /\ Publishes(r, p)

(* What holds of the request that was answered last. *)
Deployed(r) == job[r].op = "apply" \/ (job[r].op = "push" /\ job[r].noted)

Settled(r, p) ==
    /\ job[r].pc = "ended" /\ job[r].profile = p /\ job[r].op \in Publishing
    /\ \A s \in Requests : job[s].profile = p => ~Active(s)
    /\ Published(r) => Done(r, p)
    /\ p \notin Bench =>
         record[p] = [deployed |-> Deployed(r), files |-> Deployed(r)]

Settlement ==
    \A p \in Profiles, r \in Requests : answered[p] = r => Settled(r, p)

IInv == TypeOK /\ AloneIsAlone /\ Course /\ Settlement
-----------------------------------------------------------------------------
LEMMA Cluster1 == 1 \in Clusters /\ N \in Clusters /\ Clusters \subseteq Nat
BY Assumptions DEF Clusters

(* What a step of r's handler other than its start does to the jobs. *)
Steps(r) ==
    \/ Disconnect(r) \/ Render(r) \/ Controllers(r) \/ RenderFails(r)
    \/ List(r) \/ Remove(r) \/ Removed(r)
    \/ Commit(r) \/ Push(r) \/ ScriptFails(r) \/ Cleanup(r)
    \/ Prior(r) \/ SavePrior(r) \/ Save(r)

LEMMA AtField ==
    ASSUME TypeOK, NEW r \in Requests, NEW point \in Points
    PROVE  /\ At(r, point) \in Jobs
           /\ At(r, point).op = job[r].op
           /\ At(r, point).profile = job[r].profile
           /\ At(r, point).pc = point
           /\ At(r, point).at = 1
           /\ At(r, point).noted = job[r].noted
           /\ At(r, point).gone = job[r].gone
           /\ At(r, point).alone = job[r].alone
BY Cluster1 DEF TypeOK, Jobs, Points, At

(* Of the jobs only that of r changes, and only where its handler stands.  *)
Kept(r) ==
    /\ job' \in [Requests -> Jobs]
    /\ \A s \in Requests \ {r} : job'[s] = job[s]
    /\ job'[r].op = job[r].op
    /\ job'[r].profile = job[r].profile
    /\ job'[r].alone = job[r].alone

Stands(r, point) ==
    job'[r].pc = point /\ job'[r].at = 1 /\ job'[r].noted = job[r].noted

LEMMA Replaced ==
    ASSUME TypeOK, NEW r \in Requests, NEW j \in Jobs,
           j.op = job[r].op, j.profile = job[r].profile, j.alone = job[r].alone,
           job' = [job EXCEPT ![r] = j]
    PROVE  Kept(r) /\ job'[r] = j
BY DEF TypeOK, Kept

LEMMA GotoField ==
    ASSUME TypeOK, NEW r \in Requests, NEW point \in Points, Goto(r, point)
    PROVE  Kept(r) /\ Stands(r, point)
<1>1. job' = [job EXCEPT ![r] = At(r, point)] BY DEF Goto
<1> DEFINE next == At(r, point)
<1>2. /\ next \in Jobs
      /\ next.op = job[r].op /\ next.profile = job[r].profile
      /\ next.alone = job[r].alone /\ next.noted = job[r].noted
      /\ next.pc = point /\ next.at = 1
  BY AtField
<1> HIDE DEF next
<1>3. Kept(r) /\ job'[r] = next BY <1>1, <1>2, Replaced DEF next
<1> QED BY <1>2, <1>3, Zenon DEF Stands

LEMMA OnwardField ==
    ASSUME TypeOK, NEW r \in Requests, NEW point \in Points, NEW after \in Points
    PROVE  /\ Onward(r, point, after) \in Jobs
           /\ Onward(r, point, after).op = job[r].op
           /\ Onward(r, point, after).profile = job[r].profile
           /\ Onward(r, point, after).alone = job[r].alone
           /\ Onward(r, point, after).noted = job[r].noted
           /\ job[r].at < N => /\ Onward(r, point, after).pc = point
                              /\ Onward(r, point, after).at = job[r].at + 1
           /\ job[r].at = N => /\ Onward(r, point, after).pc = after
                              /\ Onward(r, point, after).at = 1
<1>1. CASE job[r].at < N
  <2>1. job[r].at + 1 \in Clusters
    BY <1>1, Assumptions DEF TypeOK, Jobs, Clusters
  <2>2. Onward(r, point, after) =
          [job[r] EXCEPT !.pc = point, !.at = job[r].at + 1]
    BY <1>1 DEF Onward
  <2>3. ~(job[r].at = N) BY <1>1, Assumptions DEF TypeOK, Jobs, Clusters
  <2> HIDE <1>1
  <2>4. job[r] \in Jobs BY DEF TypeOK
  <2>5. Onward(r, point, after) \in Jobs BY <2>1, <2>2, <2>4 DEF Jobs, Points
  <2>6. Onward(r, point, after).noted = job[r].noted BY <2>2, <2>4 DEF Jobs
  <2> QED BY <2>1, <2>2, <2>3, <2>4, <2>5, <2>6 DEF Jobs
<1>2. CASE ~(job[r].at < N)
  <2>1. job[r].at = N BY <1>2, Assumptions DEF TypeOK, Jobs, Clusters
  <2>2. Onward(r, point, after) = At(r, after) BY <1>2 DEF Onward
  <2> QED BY <2>1, <1>2, <2>2, AtField
<1> QED BY <1>1, <1>2

LEMMA LoopField ==
    ASSUME TypeOK, NEW r \in Requests, NEW point \in Points, NEW after \in Points,
           Loop(r, point, after)
    PROVE  /\ Kept(r)
           /\ job'[r].noted = job[r].noted
           /\ job[r].at < N => /\ job'[r].pc = point
                              /\ job'[r].at = job[r].at + 1
           /\ job[r].at = N => job'[r].pc = after /\ job'[r].at = 1
<1>1. job' = [job EXCEPT ![r] = Onward(r, point, after)] BY DEF Loop
<1> DEFINE next == Onward(r, point, after)
<1>2. /\ next \in Jobs
      /\ next.op = job[r].op /\ next.profile = job[r].profile
      /\ next.alone = job[r].alone /\ next.noted = job[r].noted
      /\ job[r].at < N => next.pc = point /\ next.at = job[r].at + 1
      /\ job[r].at = N => next.pc = after /\ next.at = 1
  BY OnwardField
<1> HIDE DEF next
<1>3. Kept(r) /\ job'[r] = next BY <1>1, <1>2, Replaced DEF next
<1> QED BY <1>2, <1>3, Zenon

LEMMA NotedField ==
    ASSUME TypeOK, NEW r \in Requests, NEW point \in Points, NEW seen \in BOOLEAN,
           job' = [job EXCEPT ![r] = [At(r, point) EXCEPT !.noted = seen]]
    PROVE  /\ Kept(r)
           /\ job'[r].pc = point /\ job'[r].at = 1 /\ job'[r].noted = seen
<1> DEFINE next == [At(r, point) EXCEPT !.noted = seen]
<1>1. /\ next \in Jobs
      /\ next.op = job[r].op /\ next.profile = job[r].profile
      /\ next.alone = job[r].alone
      /\ next.pc = point /\ next.at = 1 /\ next.noted = seen
  BY AtField DEF Jobs
<1>2. job' = [job EXCEPT ![r] = next] OBVIOUS
<1> HIDE DEF next
<1> QED BY <1>1, <1>2, Replaced

LEMMA OnwardNotedField ==
    ASSUME TypeOK, NEW r \in Requests, NEW point \in Points, NEW after \in Points,
           NEW seen \in BOOLEAN,
           job' = [job EXCEPT ![r] =
                     [Onward(r, point, after) EXCEPT !.noted = seen]]
    PROVE  /\ Kept(r)
           /\ job'[r].noted = seen
           /\ job[r].at < N => /\ job'[r].pc = point
                              /\ job'[r].at = job[r].at + 1
           /\ job[r].at = N => job'[r].pc = after /\ job'[r].at = 1
<1> DEFINE next == [Onward(r, point, after) EXCEPT !.noted = seen]
<1>1. /\ next \in Jobs
      /\ next.op = job[r].op /\ next.profile = job[r].profile
      /\ next.alone = job[r].alone /\ next.noted = seen
      /\ job[r].at < N => next.pc = point /\ next.at = job[r].at + 1
      /\ job[r].at = N => next.pc = after /\ next.at = 1
  BY OnwardField DEF Jobs
<1>2. job' = [job EXCEPT ![r] = next] OBVIOUS
<1> HIDE DEF next
<1>3. Kept(r) /\ job'[r] = next BY <1>1, <1>2, Replaced
<1> QED BY <1>1, <1>3, Zenon

LEMMA PointField ==
    ASSUME TypeOK, NEW r \in Requests, NEW point \in Points, NEW seen \in BOOLEAN
    PROVE  /\ job' = [job EXCEPT ![r].pc = point] =>
                /\ Kept(r)
                /\ job'[r].pc = point
                /\ job'[r].at = job[r].at /\ job'[r].noted = job[r].noted
           /\ job' = [job EXCEPT ![r].pc = point, ![r].noted = seen] =>
                Kept(r) /\ job'[r].pc = point
           /\ job' = [job EXCEPT ![r].gone = TRUE] =>
                /\ Kept(r)
                /\ job'[r].pc = job[r].pc
                /\ job'[r].at = job[r].at /\ job'[r].noted = job[r].noted
<1>0. job \in [Requests -> Jobs] BY DEF TypeOK
<1>1. ASSUME job' = [job EXCEPT ![r].pc = point]
      PROVE  /\ Kept(r)
             /\ job'[r].pc = point
             /\ job'[r].at = job[r].at /\ job'[r].noted = job[r].noted
  <2>1. Kept(r) BY <1>0, <1>1 DEF Jobs, Points, Kept
  <2>2. job'[r].noted = job[r].noted BY <1>0, <1>1 DEF Jobs
  <2> QED BY <1>0, <1>1, <2>1, <2>2 DEF Jobs
<1>2. ASSUME job' = [job EXCEPT ![r].pc = point, ![r].noted = seen]
      PROVE  Kept(r) /\ job'[r].pc = point
  BY <1>0, <1>2 DEF Jobs, Points, Kept
<1>3. ASSUME job' = [job EXCEPT ![r].gone = TRUE]
      PROVE  /\ Kept(r)
             /\ job'[r].pc = job[r].pc
             /\ job'[r].at = job[r].at /\ job'[r].noted = job[r].noted
  <2>1. Kept(r) BY <1>0, <1>3 DEF Jobs, Kept
  <2>2. job'[r].noted = job[r].noted BY <1>0, <1>3 DEF Jobs
  <2> QED BY <1>0, <1>3, <2>1, <2>2 DEF Jobs
<1> QED BY <1>1, <1>2, <1>3

(* The others for the profile of a request that starts, and itself if there *)
(* are any, are not alone from here on.                                    *)
LEMMA StartField ==
    ASSUME TypeOK, NEW r \in Requests, Start(r)
    PROVE  /\ job' \in [Requests -> Jobs]
           /\ \A s \in Requests : /\ job'[s].op = job[s].op
                                  /\ job'[s].profile = job[s].profile
           /\ \A s \in Requests \ {r} :
                /\ job'[s].pc = job[s].pc /\ job'[s].at = job[s].at
                /\ job'[s].noted = job[s].noted
                /\ job'[s].alone =>
                     job[s].alone /\ ~(Active(s) /\ job[s].profile = job[r].profile)
           /\ job[r].pc = "idle"
           /\ job'[r].pc = First[job[r].op] /\ job'[r].at = 1
           /\ job'[r].alone =>
                \A s \in Requests : job[s].profile = job[r].profile => ~Active(s)
<1> DEFINE others == Of(job[r].profile)
           mine == [At(r, First[job[r].op]) EXCEPT !.alone = others = {}]
           its(s) == [job[s] EXCEPT !.alone = job[s].alone /\ s \notin others]
<1>0. job[r].op \in {"apply", "dry", "push", "undeploy", "clear"}
  BY Assumptions DEF TypeOK, Jobs
<1>1. First[job[r].op] \in Points
  <2>1. \A op \in {"apply", "dry", "push", "undeploy", "clear"} :
          First[op] \in Points
    BY DEF First, Points
  <2> QED BY <1>0, <2>1
<1>2. /\ mine \in Jobs
      /\ mine.op = job[r].op /\ mine.profile = job[r].profile
      /\ mine.pc = First[job[r].op] /\ mine.at = 1
      /\ mine.alone => others = {}
  <2> DEFINE j == At(r, First[job[r].op])
  <2>1. /\ j \in Jobs /\ j.op = job[r].op /\ j.profile = job[r].profile
        /\ j.pc = First[job[r].op] /\ j.at = 1
    BY <1>1, AtField
  <2>2. mine = [j EXCEPT !.alone = others = {}] OBVIOUS
  <2>3. (others = {}) \in BOOLEAN OBVIOUS
  <2> HIDE DEF j, mine, others
  <2> QED BY <2>1, <2>2, <2>3 DEF Jobs
<1>3. ASSUME NEW s \in Requests
      PROVE  /\ its(s) \in Jobs
             /\ its(s).op = job[s].op /\ its(s).profile = job[s].profile
             /\ its(s).pc = job[s].pc /\ its(s).at = job[s].at
             /\ its(s).noted = job[s].noted
             /\ its(s).alone => job[s].alone /\ s \notin others
  <2>1. job[s] \in Jobs BY DEF TypeOK
  <2>2. its(s).noted = job[s].noted BY <2>1 DEF Jobs
  <2> QED BY <2>1, <2>2 DEF Jobs
<1>4. /\ job' = [s \in Requests |-> IF s = r THEN mine ELSE its(s)]
      /\ job[r].pc = "idle"
  BY DEF Start
<1>5. \A s \in Requests : s \in others <=>
        job[s].profile = job[r].profile /\ Active(s)
  BY DEF Of, Active
<1> HIDE DEF others, mine, its
<1>6. job'[r] = mine /\ \A s \in Requests \ {r} : job'[s] = its(s)
  BY <1>4
<1>7. job' \in [Requests -> Jobs] BY <1>2, <1>3, <1>4
<1>8. ASSUME NEW s \in Requests \ {r}
      PROVE  /\ job'[s].op = job[s].op /\ job'[s].profile = job[s].profile
             /\ job'[s].pc = job[s].pc /\ job'[s].at = job[s].at
             /\ job'[s].noted = job[s].noted
             /\ job'[s].alone =>
                  job[s].alone /\ ~(Active(s) /\ job[s].profile = job[r].profile)
  BY <1>3, <1>5, <1>6, Zenon
<1>9. /\ job'[r].op = job[r].op /\ job'[r].profile = job[r].profile
      /\ job'[r].pc = First[job[r].op] /\ job'[r].at = 1
      /\ job'[r].alone =>
           \A s \in Requests : job[s].profile = job[r].profile => ~Active(s)
  <2>1. job'[r].alone => others = {} BY <1>2, <1>6, Zenon
  <2> QED BY <1>2, <1>5, <1>6, <2>1
<1> QED BY <1>4, <1>7, <1>8, <1>9, Zenon

-----------------------------------------------------------------------------
(* The trees, rows and answers a step of r changes, seen from any profile. *)
Moved(r) ==
    \A p \in Profiles :
        /\ \A c \in Clusters :
             /\ p # job[r].profile => tree'[c][p] = tree[c][p]
             /\ head'[c][p] \in {head[c][p], tree[c][p]}
             /\ gitea'[c][p] \in {gitea[c][p], head[c][p]}
        /\ p # job[r].profile => record'[p] = record[p] /\ answered'[p] = answered[p]

Contents ==
    /\ tree \in [Clusters -> [Profiles -> Dirs]]
    /\ head \in [Clusters -> [Profiles -> Dirs]]
    /\ gitea \in [Clusters -> [Profiles -> Dirs]]
    /\ record \in [Profiles -> [deployed : BOOLEAN, files : BOOLEAN]]
    /\ answered \in [Profiles -> Requests \cup {NoOne}]

LEMMA Places ==
    ASSUME TypeOK, NEW r \in Requests
    PROVE  job[r].at \in Clusters /\ job[r].profile \in Profiles /\ Contents
BY DEF TypeOK, Jobs, Contents

LEMMA SetDirField ==
    ASSUME TypeOK, NEW r \in Requests, NEW dir \in Dirs, SetDir(r, dir)
    PROVE  /\ tree' \in [Clusters -> [Profiles -> Dirs]]
           /\ tree'[job[r].at][job[r].profile] = dir
           /\ \A c \in Clusters, p \in Profiles :
                c # job[r].at \/ p # job[r].profile => tree'[c][p] = tree[c][p]
BY Places DEF Contents, SetDir

LEMMA AnswerField ==
    ASSUME TypeOK, NEW r \in Requests, Answer(r)
    PROVE  /\ answered' \in [Profiles -> Requests \cup {NoOne}]
           /\ \A p \in Profiles \ {job[r].profile} : answered'[p] = answered[p]
           /\ ~job[r].alone => answered'[job[r].profile] = NoOne
           /\ job[r].alone => answered'[job[r].profile] = r
BY Places DEF Contents, Answer

LEMMA SetRecordField ==
    ASSUME TypeOK, NEW r \in Requests, NEW deployed \in BOOLEAN, NEW files \in BOOLEAN,
           SetRecord(r, deployed, files)
    PROVE  /\ record' \in [Profiles -> [deployed : BOOLEAN, files : BOOLEAN]]
           /\ \A p \in Profiles \ {job[r].profile} : record'[p] = record[p]
           /\ record'[job[r].profile] = [deployed |-> deployed, files |-> files]
BY Places DEF Contents, SetRecord

LEMMA ControllersField ==
    ASSUME TypeOK, NEW r \in Requests, Controllers(r)
    PROVE  /\ tree' \in [Clusters -> [Profiles -> Dirs]]
           /\ \A c \in Clusters :
                tree'[c][job[r].profile] =
                    [ns |-> tree[c][job[r].profile].ns, ctl |-> r]
           /\ \A c \in Clusters, p \in Profiles \ {job[r].profile} :
                tree'[c][p] = tree[c][p]
<1> DEFINE q == job[r].profile
           its(c) == [tree[c] EXCEPT ![q].ctl = r]
<1>1. /\ tree' = [c \in Clusters |-> its(c)] /\ q \in Profiles
      /\ tree \in [Clusters -> [Profiles -> Dirs]]
  BY Places DEF Controllers, Contents
<1> HIDE DEF q
<1>2. ASSUME NEW c \in Clusters
      PROVE  /\ its(c) \in [Profiles -> Dirs]
             /\ its(c)[q] = [ns |-> tree[c][q].ns, ctl |-> r]
             /\ \A p \in Profiles \ {q} : its(c)[p] = tree[c][p]
  BY <1>1 DEF Dirs
<1> HIDE DEF its
<1> QED BY <1>1, <1>2 DEF q

LEMMA Effect ==
    ASSUME TypeOK, NEW r \in Requests, Steps(r)
    PROVE  Active(r) /\ Kept(r) /\ Contents' /\ Moved(r)
<1> USE Places DEF Contents, Moved
<1> DEFINE Goal == Active(r) /\ Kept(r) /\ Contents' /\ Moved(r)
<1>1. CASE Disconnect(r)
  <2>1. Active(r) BY <1>1 DEF Disconnect, Active, Idle
  <2>2. Kept(r) BY <1>1, GotoField, PointField DEF Disconnect, Points, Idle
  <2> QED BY <1>1, <2>1, <2>2 DEF Disconnect
<1>2. CASE Render(r)
  <2>1. Active(r) BY <1>2 DEF Render, Active, Idle
  <2>2. Kept(r) BY <1>2, LoopField DEF Render, Points, Idle
  <2>3. [ns |-> r, ctl |-> NoOne] \in Dirs BY DEF Dirs
  <2>4. SetDir(r, [ns |-> r, ctl |-> NoOne]) /\ UNCHANGED <<head, gitea, record, answered>>
    BY <1>2 DEF Render
  <2> QED BY <2>1, <2>2, <2>3, <2>4, SetDirField
<1>3. CASE Controllers(r)
  <2>1. Active(r) BY <1>3 DEF Controllers, Active, Idle
  <2>2. Kept(r) BY <1>3, GotoField DEF Controllers, Points, Idle
  <2>3. UNCHANGED <<head, gitea, record, answered>> BY <1>3 DEF Controllers
  <2> QED BY <1>3, <2>1, <2>2, <2>3, ControllersField
<1>4. CASE RenderFails(r)
  <2>1. Active(r) BY <1>4 DEF RenderFails, Active, Idle
  <2>2. Kept(r) BY <1>4, GotoField DEF RenderFails, Points, Idle
  <2> QED BY <1>4, <2>1, <2>2 DEF RenderFails
<1>5. CASE List(r)
  <2>1. Active(r) BY <1>5 DEF List, Active, Idle
  <2>2. Kept(r) BY <1>5, NotedField DEF List, Points, Idle
  <2> QED BY <1>5, <2>1, <2>2 DEF List
<1>6. CASE Remove(r)
  <2>1. Active(r) BY <1>6 DEF Remove, Active, Idle
  <2>2. Kept(r) BY <1>6, OnwardNotedField DEF Remove, Points, Idle
  <2>3. Absent \in Dirs BY DEF Dirs, Absent
  <2>4. SetDir(r, Absent) /\ UNCHANGED <<head, gitea, record, answered>>
    BY <1>6 DEF Remove
  <2> QED BY <2>1, <2>2, <2>3, <2>4, SetDirField
<1>7. CASE Removed(r)
  <2>1. Active(r) BY <1>7 DEF Removed, Active, Idle
  <2>2. Kept(r) BY <1>7, NotedField DEF Removed, Points, Idle
  <2> QED BY <1>7, <2>1, <2>2 DEF Removed
<1>8. CASE Commit(r)
  <2>1. Active(r) BY <1>8 DEF Commit, Active, Idle
  <2>2. Kept(r) BY <1>8, PointField DEF Commit, Points, Idle
  <2> QED BY <1>8, <2>1, <2>2 DEF Commit
<1>9. CASE Push(r)
  <2>1. Active(r) BY <1>9 DEF Push, Active, Idle
  <2>2. Kept(r) BY <1>9, LoopField DEF Push, AfterScript, Points, Idle
  <2>3. Answer(r) \/ UNCHANGED answered BY <1>9 DEF Push
  <2>4. /\ gitea' = [gitea EXCEPT ![job[r].at] = head[job[r].at]]
        /\ UNCHANGED <<tree, head, record>>
    BY <1>9 DEF Push
  <2> QED BY <2>1, <2>2, <2>3, <2>4, AnswerField
<1>10. CASE ScriptFails(r)
  <2>1. Active(r) BY <1>10 DEF ScriptFails, Active, Idle
  <2>2. Kept(r) BY <1>10, GotoField DEF ScriptFails, Points, Idle
  <2> QED BY <1>10, <2>1, <2>2 DEF ScriptFails
<1>11. CASE Cleanup(r)
  <2>1. Active(r) BY <1>11 DEF Cleanup, Active, Idle
  <2>2. Kept(r) BY <1>11, GotoField DEF Cleanup, Points, Idle
  <2>3. Answer(r) \/ UNCHANGED answered BY <1>11 DEF Cleanup
  <2>4. UNCHANGED <<tree, head, gitea, record>> BY <1>11 DEF Cleanup
  <2> QED BY <2>1, <2>2, <2>3, <2>4, AnswerField
<1>12. CASE Prior(r)
  <2>1. Active(r) BY <1>12 DEF Prior, Active, Idle
  <2>2. record[job[r].profile].deployed \in BOOLEAN OBVIOUS
  <2>3. Kept(r) BY <1>12, <2>2, PointField DEF Prior, Points
  <2> QED BY <1>12, <2>1, <2>3 DEF Prior
<1>13. CASE SavePrior(r)
  <2>1. Active(r) BY <1>13 DEF SavePrior, Active, Idle
  <2>2. Kept(r) BY <1>13, GotoField DEF SavePrior, Points, Idle
  <2>3. SetRecord(r, job[r].noted, TRUE) /\ UNCHANGED <<tree, head, gitea, answered>>
    BY <1>13 DEF SavePrior
  <2>4. job[r].noted \in BOOLEAN BY DEF TypeOK, Jobs
  <2> QED BY <2>1, <2>2, <2>3, <2>4, SetRecordField
<1>14. CASE Save(r)
  <2>1. Active(r) BY <1>14 DEF Save, Active, Idle
  <2>2. Kept(r) BY <1>14, GotoField DEF Save, Points, Idle
  <2>3. Answer(r) \/ UNCHANGED answered BY <1>14 DEF Save
  <2>4. SetRecord(r, Deployed(r), Deployed(r)) /\ UNCHANGED <<tree, head, gitea>>
    BY <1>14 DEF Save, Deployed
  <2>5. Deployed(r) \in BOOLEAN BY DEF Deployed
  <2> QED BY <2>1, <2>2, <2>3, <2>4, <2>5, AnswerField, SetRecordField
<1> QED
  BY <1>1, <1>2, <1>3, <1>4, <1>5, <1>6, <1>7, <1>8, <1>9, <1>10,
     <1>11, <1>12, <1>13, <1>14 DEF Steps

-----------------------------------------------------------------------------
(* What requests for other profiles do is no step backwards for r. *)
Undisturbed(r, p) ==
    /\ job'[r].op = job[r].op /\ job'[r].profile = job[r].profile
    /\ job'[r].pc = job[r].pc
    /\ job'[r].at = job[r].at /\ job'[r].noted = job[r].noted
    /\ \A c \in Clusters :
         /\ tree'[c][p] = tree[c][p]
         /\ head'[c][p] \in {head[c][p], tree[c][p]}
         /\ gitea'[c][p] \in {gitea[c][p], head[c][p]}

LEMMA UndisturbedDone ==
    ASSUME NEW r \in Requests, NEW p \in Profiles, Undisturbed(r, p)
    PROVE  /\ \A c \in Clusters : Synced(c, p) => Synced(c, p)'
           /\ Left(r, p) => Left(r, p)'
           /\ Done(r, p) => Done(r, p)'
           /\ Published(r)' => Published(r)
           /\ Published(r) => Published(r)'
<1>1. \A c \in Clusters : Synced(c, p) => Synced(c, p)'
  BY DEF Undisturbed, Synced
<1>2. Left(r, p) => Left(r, p)'
  BY DEF Undisturbed, Left, Complete, Absent
<1>3. Published(r)' <=> Published(r)
  BY DEF Undisturbed, Published
<1> QED BY <1>1, <1>2, <1>3, Zenon DEF Done

LEMMA UndisturbedCourse ==
    ASSUME TypeOK, NEW r \in Requests, NEW p \in Profiles, Undisturbed(r, p),
           Writing(r, p), Publishes(r, p)
    PROVE  Writing(r, p)' /\ Publishes(r, p)'
<1>1. Writing(r, p)'
  BY DEF Writing, Undisturbed, Rendered, Absent
<1>2. Publishes(r, p)'
  <2>1. job[r].at \in Clusters BY Places
  <2>2. job[r].pc = "push" => head'[job'[r].at][p] = tree'[job'[r].at][p]
    BY <2>1 DEF Publishes, Undisturbed
  <2>3. /\ job'[r].op = job[r].op /\ job'[r].pc = job[r].pc
        /\ job'[r].at = job[r].at
    BY DEF Undisturbed
  <2> QED BY <2>2, <2>3, UndisturbedDone DEF Publishes
<1> QED BY <1>1, <1>2

LEMMA UndisturbedSettled ==
    ASSUME NEW r \in Requests, NEW p \in Profiles, Undisturbed(r, p),
           Settled(r, p), record'[p] = record[p],
           \A s \in Requests : job[s].profile = p =>
               job'[s].pc = job[s].pc,
           \A s \in Requests : job'[s].profile = job[s].profile
    PROVE  Settled(r, p)'
<1>1. Deployed(r)' = Deployed(r) BY DEF Undisturbed, Deployed
<1>2. p \notin Bench =>
        record'[p] = [deployed |-> Deployed(r)', files |-> Deployed(r)']
  BY <1>1 DEF Settled
<1>3. \A s \in Requests : job'[s].profile = p => ~Active(s)'
  BY DEF Settled, Active
<1>4. /\ job'[r].pc = "ended" /\ job'[r].profile = p /\ job'[r].op \in Publishing
  BY DEF Undisturbed, Settled
<1>5. Published(r)' => Done(r, p)' BY UndisturbedDone DEF Settled
<1> QED BY <1>2, <1>3, <1>4, <1>5 DEF Settled

LEMMA AloneStep ==
    ASSUME TypeOK, AloneIsAlone, [Next]_vars PROVE AloneIsAlone'
<1> SUFFICES ASSUME NEW x \in Requests, NEW y \in Requests,
                    Active(x)', job'[x].alone, Active(y)',
                    job'[y].profile = job'[x].profile
             PROVE  y = x
  BY DEF AloneIsAlone
<1>1. ASSUME NEW r \in Requests, Start(r) PROVE y = x
  <2>1. CASE x = r
    BY <1>1, <2>1, StartField DEF Active
  <2>2. CASE x # r
    BY <1>1, <2>2, StartField DEF Active, AloneIsAlone
  <2> QED BY <2>1, <2>2
<1>2. ASSUME NEW r \in Requests, Steps(r) PROVE y = x
  BY <1>2, Effect DEF Kept, Active, AloneIsAlone
<1>3. CASE UNCHANGED vars BY <1>3 DEF vars, Active, AloneIsAlone
<1> QED BY <1>1, <1>2, <1>3 DEF Next, Steps

-----------------------------------------------------------------------------
(* The course of r itself, action by action, while no other request for    *)
(* its profile is served.                                                  *)
Own(r, p) == Writing(r, p) /\ Publishes(r, p)

LEMMA EndedOwn ==
    ASSUME NEW r \in Requests, NEW p \in Profiles,
           job'[r].pc \in Idle \cup {"prior", "saveprior"}
    PROVE  Own(r, p)'
BY DEF Own, Writing, Publishes, Idle

LEMMA WritingStep ==
    ASSUME TypeOK, NEW r \in Requests, NEW p \in Profiles, job[r].profile = p,
           Own(r, p),
           Render(r) \/ Controllers(r) \/ RenderFails(r) \/ List(r)
             \/ Remove(r) \/ Removed(r)
    PROVE  Own(r, p)'
<1> USE Cluster1, Places
<1>0. Writing(r, p) BY DEF Own
<1>1. CASE Render(r)
  <2>1. job[r].pc = "render" /\ Loop(r, "render", "controllers")
        /\ SetDir(r, Rendered(r))
    BY <1>1 DEF Render, Rendered
  <2>2. Rendered(r) \in Dirs BY DEF Rendered, Dirs
  <2>3. \A c \in Clusters : c < job[r].at \/ c = job[r].at => tree'[c][p] = Rendered(r)
    BY <1>0, <2>1, <2>2, SetDirField DEF Writing
  <2>4. job'[r].op \in {"apply", "dry"}
    BY <1>0, <2>1, LoopField DEF Writing, Kept, Points
  <2>5. CASE job[r].at < N
    <3>1. job'[r].pc = "render" /\ job'[r].at = job[r].at + 1
      BY <2>1, <2>5, LoopField DEF Points
    <3>2. \A c \in Clusters : c < job'[r].at => tree'[c][p] = Rendered(r)
      BY <2>3, <3>1 DEF Clusters
    <3> QED BY <2>4, <3>1, <3>2 DEF Own, Writing, Publishes, Rendered
  <2>6. CASE job[r].at = N
    <3>1. job'[r].pc = "controllers" /\ job'[r].at = 1
      BY <2>1, <2>6, LoopField DEF Points
    <3>2. \A c \in Clusters : tree'[c][p] = Rendered(r)
      BY <2>3, <2>6 DEF Clusters
    <3> QED BY <2>4, <3>1, <3>2 DEF Own, Writing, Publishes, Rendered
  <2> QED BY <2>5, <2>6, Assumptions DEF Clusters
<1>2. CASE Controllers(r)
  <2>1. job[r].pc = "controllers" BY <1>2 DEF Controllers
  <2>2. \A c \in Clusters : tree'[c][p] = Complete(r)
    <3>1. \A c \in Clusters : tree[c][p].ns = r
      BY <1>0, <2>1 DEF Writing, Rendered
    <3> QED BY <1>2, <3>1, ControllersField DEF Complete
  <2>3. CASE job[r].op = "apply"
    <3>1. Goto(r, "commit") BY <1>2, <2>3 DEF Controllers
    <3>2. job'[r].op = "apply" /\ job'[r].pc = "commit" /\ job'[r].at = 1
      BY <2>3, <3>1, GotoField DEF Kept, Stands, Points
    <3> QED BY <2>2, <3>2 DEF Own, Writing, Publishes, Left, Published, Publishing,
                              Complete, Clusters
  <2>4. CASE job[r].op # "apply"
    BY <1>2, <2>4, GotoField, EndedOwn DEF Controllers, Stands, Points, Idle
  <2> QED BY <2>3, <2>4
<1>3. CASE RenderFails(r)
  BY <1>3, GotoField, EndedOwn DEF RenderFails, Stands, Points, Idle
<1>4. CASE List(r)
  <2> DEFINE listed == \E c \in Clusters : tree[c][p] # Absent
  <2>1. /\ job[r].pc = "list" /\ UNCHANGED tree
        /\ job' = [job EXCEPT ![r] = [At(r, "commit") EXCEPT !.noted = listed]]
    BY <1>4 DEF List
  <2>2. listed \in BOOLEAN OBVIOUS
  <2>3. job[r].op = "push" BY <1>0, <2>1 DEF Writing
  <2>4. /\ job'[r].op = "push" /\ job'[r].pc = "commit" /\ job'[r].at = 1
        /\ job'[r].noted = listed
    BY <2>1, <2>2, <2>3, NotedField DEF Kept, Points
  <2>5. Left(r, p)'
    BY <2>1, <2>4 DEF Left, Absent
  <2> QED BY <2>4, <2>5 DEF Own, Writing, Publishes, Published, Publishing, Clusters
<1>5. CASE Remove(r)
  <2> DEFINE seen == job[r].noted \/ Dir(r, tree) # Absent
  <2>1. /\ job[r].pc = "remove" /\ SetDir(r, Absent)
        /\ job' = [job EXCEPT ![r] =
                     [Onward(r, "remove", "removed") EXCEPT !.noted = seen]]
    BY <1>5 DEF Remove
  <2>2. seen \in BOOLEAN /\ Absent \in Dirs BY DEF Dirs, Absent
  <2> HIDE DEF seen
  <2>3. \A c \in Clusters : c < job[r].at \/ c = job[r].at => tree'[c][p] = Absent
    BY <1>0, <2>1, <2>2, SetDirField DEF Writing
  <2>4. job'[r].op \in {"undeploy", "clear"}
    BY <1>0, <2>1, <2>2, OnwardNotedField DEF Writing, Kept, Points
  <2>5. CASE job[r].at < N
    <3>1. job'[r].pc = "remove" /\ job'[r].at = job[r].at + 1
      BY <2>1, <2>2, <2>5, OnwardNotedField DEF Points
    <3>2. \A c \in Clusters : c < job'[r].at => tree'[c][p] = Absent
      BY <2>3, <3>1 DEF Clusters
    <3> QED BY <2>4, <3>1, <3>2 DEF Own, Writing, Publishes, Absent
  <2>6. CASE job[r].at = N
    <3>1. job'[r].pc = "removed" /\ job'[r].at = 1
      BY <2>1, <2>2, <2>6, OnwardNotedField DEF Points
    <3>2. \A c \in Clusters : tree'[c][p] = Absent
      BY <2>3, <2>6 DEF Clusters
    <3> QED BY <2>4, <3>1, <3>2 DEF Own, Writing, Publishes, Absent
  <2> QED BY <2>5, <2>6, Assumptions DEF Clusters
<1>6. CASE Removed(r)
  <2> DEFINE needed == job[r].noted \/ (job[r].profile \in Bench
                                          /\ TrackedInGit(job[r].profile))
             next == IF job[r].op = "clear"
                     THEN IF job[r].profile \in Bench THEN "ended" ELSE "save"
                     ELSE IF needed THEN "commit" ELSE "cleanup"
  <2>1. /\ job[r].pc = "removed" /\ UNCHANGED tree
        /\ job' = [job EXCEPT ![r] = [At(r, next) EXCEPT !.noted = needed]]
    BY <1>6 DEF Removed
  <2>2. needed \in BOOLEAN /\ next \in Points BY DEF Points, Idle
  <2>3. /\ job[r].op \in {"undeploy", "clear"}
        /\ \A c \in Clusters : tree'[c][p] = Absent
    BY <1>0, <2>1 DEF Writing
  <2> HIDE DEF needed, next
  <2>4. /\ job'[r].op = job[r].op /\ job'[r].pc = next /\ job'[r].at = 1
        /\ job'[r].noted = needed
    BY <2>1, <2>2, NotedField DEF Kept
  <2>5. CASE job[r].op = "clear"
    <3>1. next \in {"ended", "save"} BY <2>5 DEF next
    <3> QED BY <2>4, <2>5, <3>1 DEF Own, Writing, Publishes
  <2>6. CASE job[r].op = "undeploy" /\ needed
    <3>1. next = "commit" BY <2>6 DEF next
    <3>2. Published(r)' BY <2>4, <2>6 DEF Published
    <3>3. Left(r, p)' BY <2>3, <2>4, <2>6 DEF Left, Absent
    <3> QED BY <2>4, <2>6, <3>1, <3>2, <3>3
            DEF Own, Writing, Publishes, Publishing, Clusters
  <2>7. CASE job[r].op = "undeploy" /\ ~needed
    <3>1. next = "cleanup" BY <2>7 DEF next
    <3>2. ~Published(r)' BY <2>4, <2>7 DEF Published
    <3> QED BY <2>4, <2>7, <3>1, <3>2 DEF Own, Writing, Publishes
  <2> QED BY <2>3, <2>5, <2>6, <2>7
<1> QED BY <1>1, <1>2, <1>3, <1>4, <1>5, <1>6

LEMMA PublishingStep ==
    ASSUME TypeOK, NEW r \in Requests, NEW p \in Profiles, job[r].profile = p,
           Own(r, p),
           Commit(r) \/ Push(r) \/ ScriptFails(r) \/ Cleanup(r)
             \/ Prior(r) \/ SavePrior(r) \/ Save(r) \/ Disconnect(r)
    PROVE  Own(r, p)'
<1> USE Cluster1, Places
<1>0. Publishes(r, p) BY DEF Own
<1>1. CASE Commit(r)
  <2>1. /\ job[r].pc = "commit" /\ job' = [job EXCEPT ![r].pc = "push"]
        /\ head' = [head EXCEPT ![job[r].at] = tree[job[r].at]]
        /\ UNCHANGED <<tree, gitea>>
    BY <1>1 DEF Commit
  <2>2. /\ job'[r].op = job[r].op /\ job'[r].pc = "push"
        /\ job'[r].at = job[r].at /\ job'[r].noted = job[r].noted
    BY <2>1, PointField DEF Kept, Points
  <2>3. \A c \in Clusters : Synced(c, p) => Synced(c, p)'
    BY <2>1 DEF Synced, Contents
  <2>4. head'[job[r].at][p] = tree[job[r].at][p] BY <2>1 DEF Contents
  <2>5. /\ job[r].op \in Publishing /\ Published(r) /\ Left(r, p)
        /\ \A c \in Clusters : c < job[r].at => Synced(c, p)
    BY <1>0, <2>1 DEF Publishes
  <2>6. Left(r, p)' BY <2>1, <2>2, <2>5 DEF Left, Complete, Absent
  <2>7. Published(r)' BY <2>2, <2>5 DEF Published
  <2>8. Publishes(r, p)' BY <2>1, <2>2, <2>3, <2>4, <2>5, <2>6, <2>7 DEF Publishes
  <2> QED BY <2>2, <2>8 DEF Own, Writing
<1>2. CASE Push(r)
  <2>1. /\ job[r].pc = "push" /\ Loop(r, "commit", AfterScript(r))
        /\ gitea' = [gitea EXCEPT ![job[r].at] = head[job[r].at]]
        /\ UNCHANGED <<tree, head>>
    BY <1>2 DEF Push
  <2>2. AfterScript(r) \in Points BY DEF AfterScript, Points, Idle
  <2>3. job'[r].op = job[r].op /\ job'[r].noted = job[r].noted
    BY <2>1, <2>2, LoopField DEF Kept, Points
  <2>4. \A c \in Clusters : c < job[r].at \/ c = job[r].at => Synced(c, p)'
    BY <1>0, <2>1 DEF Publishes, Synced, Contents
  <2>5. /\ job[r].op \in Publishing /\ Published(r) /\ Left(r, p)
    BY <1>0, <2>1 DEF Publishes
  <2>6. Left(r, p)' BY <2>1, <2>3, <2>5 DEF Left, Complete, Absent
  <2>7. Published(r)' BY <2>3, <2>5 DEF Published
  <2>8. CASE job[r].at < N
    <3>1. job'[r].pc = "commit" /\ job'[r].at = job[r].at + 1
      BY <2>1, <2>2, <2>8, LoopField DEF Points
    <3>2. \A c \in Clusters : c < job'[r].at => Synced(c, p)'
      BY <2>4, <3>1 DEF Clusters
    <3> QED BY <2>3, <2>5, <2>6, <2>7, <3>1, <3>2 DEF Own, Writing, Publishes
  <2>9. CASE job[r].at = N
    <3>1. job'[r].pc = AfterScript(r)
      BY <2>1, <2>2, <2>9, LoopField DEF Points
    <3>2. Done(r, p)' BY <2>4, <2>6, <2>9 DEF Done, Clusters
    <3>3. AfterScript(r) \in {"ended", "cleanup", "save"}
          /\ (AfterScript(r) = "cleanup" => job[r].op = "undeploy")
      BY DEF AfterScript
    <3> QED BY <2>3, <2>5, <3>1, <3>2, <3>3 DEF Own, Writing, Publishes
  <2> QED BY <2>8, <2>9, Assumptions DEF Clusters
<1>3. CASE ScriptFails(r)
  BY <1>3, GotoField, EndedOwn DEF ScriptFails, Stands, Points, Idle
<1>4. CASE Cleanup(r)
  <2>1. /\ job[r].pc = "cleanup" /\ UNCHANGED <<tree, head, gitea>>
        /\ Goto(r, "ended") \/ Goto(r, "save")
    BY <1>4 DEF Cleanup
  <2>2. /\ job'[r].pc \in {"ended", "save"} /\ job'[r].op = job[r].op
        /\ job'[r].noted = job[r].noted
    BY <2>1, GotoField DEF Kept, Stands, Points, Idle
  <2>3. job[r].op = "undeploy" /\ (Published(r) => Done(r, p))
    BY <1>0, <2>1 DEF Publishes
  <2>4. Published(r)' => Published(r) BY <2>2 DEF Published
  <2>5. Done(r, p) => Done(r, p)'
    BY <2>1, <2>2 DEF Done, Left, Synced, Complete, Absent
  <2> QED BY <2>2, <2>3, <2>4, <2>5 DEF Own, Writing, Publishes, Publishing
<1>5. CASE Prior(r)
  <2>1. record[job[r].profile].deployed \in BOOLEAN BY DEF Contents
  <2>2. job'[r].pc = "saveprior" BY <1>5, <2>1, PointField DEF Prior, Points
  <2> QED BY <2>2, EndedOwn
<1>6. CASE SavePrior(r) \/ Save(r)
  BY <1>6, GotoField, EndedOwn DEF SavePrior, Save, Stands, Points, Idle
<1>7. CASE Disconnect(r)
  <2>1. CASE Goto(r, "ended")
    BY <2>1, GotoField, EndedOwn DEF Stands, Points, Idle
  <2>2. CASE job' = [job EXCEPT ![r].gone = TRUE]
    <3>1. UNCHANGED <<tree, head, gitea>> BY <1>7 DEF Disconnect
    <3>2. Undisturbed(r, p)
      BY <2>2, <3>1, PointField DEF Undisturbed, Kept, Points
    <3> QED BY <3>2, UndisturbedCourse DEF Own
  <2> QED BY <1>7, <2>1, <2>2 DEF Disconnect
<1> QED BY <1>1, <1>2, <1>3, <1>4, <1>5, <1>6, <1>7

(* A request of another profile, or one that starts, leaves r as it was.   *)
LEMMA OtherUndisturbed ==
    ASSUME TypeOK, NEW r \in Requests, NEW t \in Requests, NEW p \in Profiles,
           t # r, job[t].profile # p \/ Start(t), Start(t) \/ Steps(t)
    PROVE  Undisturbed(r, p)
<1>1. CASE Start(t)
  BY <1>1, StartField DEF Start, Undisturbed
<1>2. CASE Steps(t) /\ job[t].profile # p
  BY <1>2, Effect DEF Kept, Moved, Undisturbed
<1> QED BY <1>1, <1>2

LEMMA CourseStep ==
    ASSUME TypeOK, AloneIsAlone, Course, [Next]_vars PROVE Course'
<1> SUFFICES ASSUME NEW r \in Requests, NEW p \in Profiles,
                    Active(r)', job'[r].alone, job'[r].profile = p
             PROVE  Own(r, p)'
  BY DEF Course, Own
<1>1. ASSUME NEW t \in Requests, Start(t) PROVE Own(r, p)'
  <2>1. CASE t = r
    <3>1. job'[r].pc = First[job[r].op] /\ job'[r].at = 1 /\ job'[r].op = job[r].op
      BY <1>1, <2>1, StartField
    <3>2. job[r].op \in {"apply", "dry", "push", "undeploy", "clear"}
      BY Assumptions DEF TypeOK, Jobs
    <3>3. \/ job'[r].op \in {"apply", "dry"} /\ job'[r].pc = "render"
          \/ job'[r].op = "push" /\ job'[r].pc = "list"
          \/ job'[r].op \in {"undeploy", "clear"} /\ job'[r].pc = "remove"
      BY <3>1, <3>2 DEF First
    <3> QED BY <3>1, <3>3 DEF Own, Writing, Publishes, Clusters
  <2>2. CASE t # r
    <3>1. Undisturbed(r, p) BY <1>1, <2>2, OtherUndisturbed
    <3>2. job[r].alone BY <1>1, <2>2, StartField
    <3>3. Own(r, p) BY <3>1, <3>2 DEF Undisturbed, Course, Active, Own
    <3> QED BY <3>1, <3>3, UndisturbedCourse DEF Own
  <2> QED BY <2>1, <2>2
<1>2. ASSUME NEW t \in Requests, Steps(t) PROVE Own(r, p)'
  <2>1. CASE t = r
    <3>1. Own(r, p) /\ job[r].profile = p
      BY <1>2, <2>1, Effect DEF Course, Kept, Own
    <3> QED BY <1>2, <2>1, <3>1, WritingStep, PublishingStep DEF Steps
  <2>2. CASE t # r
    <3>1. Active(r) /\ job[r].alone /\ job[r].profile = p /\ Active(t)
      BY <1>2, <2>2, Effect DEF Kept, Active
    <3>2. job[t].profile # p BY <2>2, <3>1 DEF AloneIsAlone
    <3>3. Undisturbed(r, p) BY <1>2, <2>2, <3>2, OtherUndisturbed
    <3>4. Own(r, p) BY <3>1 DEF Course, Own
    <3> QED BY <3>3, <3>4, UndisturbedCourse DEF Own
  <2> QED BY <2>1, <2>2
<1>3. CASE UNCHANGED vars
  <2>1. Undisturbed(r, p) BY <1>3 DEF vars, Undisturbed
  <2>2. Own(r, p) BY <1>3 DEF vars, Course, Active, Own
  <2> QED BY <2>1, <2>2, UndisturbedCourse DEF Own
<1> QED BY <1>1, <1>2, <1>3 DEF Next, Steps

-----------------------------------------------------------------------------
(* A request that answers without company leaves its profile settled. *)
LEMMA AnswerSettles ==
    ASSUME TypeOK, AloneIsAlone, Course, NEW r \in Requests, NEW p \in Profiles,
           job[r].profile = p, job[r].alone, Steps(r), answered'[p] # answered[p]
    PROVE  Settled(r, p)'
<1> USE Cluster1, Places
<1>0. Kept(r) /\ Active(r) BY Effect
<1>1. \A s \in Requests : job'[s].profile = p /\ s # r => ~Active(s)'
  BY <1>0 DEF Kept, Active, AloneIsAlone
<1>2. Publishes(r, p) BY <1>0 DEF Course
<1>3. CASE Push(r)
  <2>1. /\ job[r].pc = "push" /\ Loop(r, "commit", AfterScript(r))
        /\ job[r].at = N /\ AfterScript(r) = "ended" /\ ~job[r].gone
    BY <1>3 DEF Push
  <2>2. job'[r].pc = "ended" BY <2>1, LoopField DEF Points, Idle
  <2>3. p \in Bench BY <2>1 DEF AfterScript
  <2>4. Done(r, p)'
    <3>1. /\ Left(r, p) /\ head[N][p] = tree[N][p]
          /\ \A c \in Clusters : c < N => Synced(c, p)
      BY <1>2, <2>1 DEF Publishes
    <3>2. /\ gitea' = [gitea EXCEPT ![N] = head[N]] /\ UNCHANGED <<tree, head>>
      BY <1>3, <2>1 DEF Push
    <3>3. \A c \in Clusters : Synced(c, p)'
      BY <3>1, <3>2 DEF Synced, Clusters, Contents
    <3>4. job'[r].op = job[r].op /\ job'[r].noted = job[r].noted
      BY <2>1, LoopField DEF Kept, Points, Idle
    <3>5. Left(r, p)' BY <3>1, <3>2, <3>4 DEF Left, Complete, Absent
    <3> QED BY <3>3, <3>5 DEF Done
  <2>5. job'[r].op \in Publishing /\ job'[r].profile = p
    BY <1>0, <1>2, <2>1 DEF Publishes, Kept
  <2>6. \A s \in Requests : job'[s].profile = p => ~Active(s)'
    BY <1>1, <2>2 DEF Active, Idle
  <2> QED BY <2>2, <2>3, <2>4, <2>5, <2>6 DEF Settled
<1>4. CASE Cleanup(r)
  <2>1. /\ job[r].pc = "cleanup" /\ p \in Bench /\ Goto(r, "ended")
        /\ UNCHANGED <<tree, head, gitea>>
    BY <1>4 DEF Cleanup
  <2>2. job'[r].pc = "ended" /\ job'[r].noted = job[r].noted
        /\ job'[r].op = job[r].op /\ job'[r].profile = p
    BY <2>1, GotoField DEF Points, Idle, Stands, Kept
  <2>3. job[r].op = "undeploy" /\ (Published(r) => Done(r, p))
    BY <1>2, <2>1 DEF Publishes
  <2>4. Published(r)' => Published(r) BY <2>2 DEF Published
  <2>5. Done(r, p) => Done(r, p)'
    BY <2>1, <2>2 DEF Done, Left, Synced, Complete, Absent
  <2>6. \A s \in Requests : job'[s].profile = p => ~Active(s)'
    BY <1>1, <2>2 DEF Active, Idle
  <2> QED BY <2>1, <2>2, <2>3, <2>4, <2>5, <2>6 DEF Settled, Publishing
<1>5. CASE Save(r)
  <2>1. /\ job[r].pc = "save" /\ Goto(r, "ended") /\ job[r].op # "clear"
        /\ SetRecord(r, Deployed(r), Deployed(r))
        /\ UNCHANGED <<tree, head, gitea>>
    BY <1>5 DEF Save, Deployed
  <2>2. job'[r].pc = "ended" /\ job'[r].noted = job[r].noted
        /\ job'[r].op = job[r].op /\ job'[r].profile = p
    BY <2>1, GotoField DEF Points, Idle, Stands, Kept
  <2>3. job[r].op \in Publishing /\ (Published(r) => Done(r, p))
    BY <1>2, <2>1 DEF Publishes
  <2>4. Published(r)' => Published(r) BY <2>2 DEF Published
  <2>5. Done(r, p) => Done(r, p)'
    BY <2>1, <2>2 DEF Done, Left, Synced, Complete, Absent
  <2>6. \A s \in Requests : job'[s].profile = p => ~Active(s)'
    BY <1>1, <2>2 DEF Active, Idle
  <2>7. Deployed(r)' = Deployed(r) BY <2>2 DEF Deployed
  <2>8. Deployed(r) \in BOOLEAN BY DEF Deployed
  <2>9. record'[p] = [deployed |-> Deployed(r)', files |-> Deployed(r)']
    BY <2>1, <2>7, <2>8, SetRecordField
  <2> QED BY <2>2, <2>3, <2>4, <2>5, <2>6, <2>9 DEF Settled
<1>6. CASE UNCHANGED answered BY <1>6
<1> QED
  BY <1>3, <1>4, <1>5, <1>6
     DEF Steps, Disconnect, Render, Controllers, RenderFails, List, Remove, Removed,
         Commit, ScriptFails, Prior, SavePrior

LEMMA SettlementStep ==
    ASSUME TypeOK, AloneIsAlone, Course, Settlement, [Next]_vars PROVE Settlement'
<1> SUFFICES ASSUME NEW p \in Profiles, NEW r \in Requests, answered'[p] = r
             PROVE  Settled(r, p)'
  BY DEF Settlement
<1>1. ASSUME NEW t \in Requests, Start(t) PROVE Settled(r, p)'
  <2>1. job[t].profile # p /\ answered[p] = r
    BY <1>1, Places, Assumptions DEF Start, Contents
  <2>2. Settled(r, p) BY <2>1 DEF Settlement
  <2>3. t # r BY <2>1, <2>2 DEF Settled
  <2>4. Undisturbed(r, p) BY <1>1, <2>3, OtherUndisturbed
  <2>5. record'[p] = record[p] BY <1>1 DEF Start
  <2>6. \A s \in Requests : /\ job[s].profile = p => job'[s].pc = job[s].pc
                           /\ job'[s].profile = job[s].profile
    BY <1>1, <2>1, StartField
  <2> QED BY <2>2, <2>4, <2>5, <2>6, UndisturbedSettled
<1>2. ASSUME NEW t \in Requests, Steps(t) PROVE Settled(r, p)'
  <2>0. Kept(t) /\ Active(t) /\ Moved(t) BY <1>2, Effect
  <2>1. CASE job[t].profile # p
    <3>1. answered[p] = r /\ record'[p] = record[p] BY <2>0, <2>1 DEF Moved
    <3>2. Settled(r, p) BY <3>1 DEF Settlement
    <3>3. t # r BY <2>1, <3>2 DEF Settled
    <3>4. Undisturbed(r, p) BY <1>2, <2>1, <3>3, OtherUndisturbed
    <3>5. \A s \in Requests : /\ job[s].profile = p => job'[s].pc = job[s].pc
                             /\ job'[s].profile = job[s].profile
      BY <2>0, <2>1 DEF Kept
    <3> QED BY <3>1, <3>2, <3>4, <3>5, UndisturbedSettled
  <2>2. CASE job[t].profile = p
    <3>1. answered[p] # r
      BY <2>0, <2>2 DEF Settlement, Settled
    <3>2. Answer(t)
      BY <1>2, <3>1
         DEF Steps, Disconnect, Render, Controllers, RenderFails, List, Remove,
             Removed, Commit, Push, ScriptFails, Cleanup, Prior, SavePrior, Save
    <3>3. t = r /\ job[t].alone BY <2>2, <3>2, AnswerField, Assumptions
    <3> QED BY <1>2, <2>2, <3>1, <3>3, AnswerSettles
  <2> QED BY <2>1, <2>2
<1>3. CASE UNCHANGED vars
  <2>1. Undisturbed(r, p) BY <1>3 DEF vars, Undisturbed
  <2>2. Settled(r, p) BY <1>3 DEF vars, Settlement
  <2> QED BY <1>3, <2>1, <2>2, UndisturbedSettled DEF vars
<1> QED BY <1>1, <1>2, <1>3 DEF Next, Steps

-----------------------------------------------------------------------------
LEMMA InitIInv == Init => IInv
<1> SUFFICES ASSUME Init PROVE IInv OBVIOUS
<1>1. TypeOK
  BY Cluster1 DEF Init, TypeOK, Dirs, Absent
<1>2. \A r \in Requests : ~Active(r)
  BY DEF Init, Active, Idle
<1>3. Settlement
  BY Assumptions DEF Init, Settlement
<1> QED BY <1>1, <1>2, <1>3 DEF IInv, AloneIsAlone, Course

LEMMA TypingStep == ASSUME TypeOK, [Next]_vars PROVE TypeOK'
<1>1. ASSUME NEW r \in Requests, Start(r) PROVE TypeOK'
  <2>1. job' \in [Requests -> Jobs] BY <1>1, StartField
  <2>2. answered' \in [Profiles -> Requests \cup {NoOne}]
        /\ UNCHANGED <<tree, head, gitea, record>>
    BY <1>1, Places DEF Start, Contents
  <2> QED BY <2>1, <2>2 DEF TypeOK
<1>2. ASSUME NEW r \in Requests, Steps(r) PROVE TypeOK'
  BY <1>2, Effect DEF TypeOK, Contents, Kept
<1>3. CASE UNCHANGED vars BY <1>3 DEF vars, TypeOK
<1> QED BY <1>1, <1>2, <1>3 DEF Next, Steps

LEMMA Invariance == Spec => []IInv
<1>1. IInv /\ [Next]_vars => IInv'
  BY TypingStep, AloneStep, CourseStep, SettlementStep DEF IInv
<1> QED BY InitIInv, <1>1, PTL DEF Spec

(* Whatever other requests do to the shared working trees, an answered     *)
(* apply, push or undeploy is in the Gitea of every cluster, whole, until  *)
(* the next request for its profile.                                       *)
THEOREM AnswersAreInGitea == Spec => []AnswerIsInGitea
<1>1. ASSUME IInv, NEW p \in Profiles, NEW r \in Requests,
             answered[p] = r, Published(r), NEW c \in Clusters
      PROVE  /\ gitea[c][p] = tree[c][p]
             /\ job[r].op = "apply" => gitea[c][p] = [ns |-> r, ctl |-> r]
             /\ job[r].op = "undeploy" => gitea[c][p] = Absent
  <2>1. Done(r, p) BY <1>1 DEF IInv, Settlement, Settled
  <2> QED BY <2>1 DEF Done, Left, Synced, Complete
<1>2. IInv => AnswerIsInGitea BY <1>1 DEF AnswerIsInGitea
<1> QED BY Invariance, <1>2, PTL

(* And the row of the profile says "deployed" just when it is there. *)
THEOREM RecordsMatchGitea == Spec => []RecordMatchesGitea
<1>1. ASSUME IInv, NEW p \in Profiles \ Bench, NEW r \in Requests,
             answered[p] = r, Published(r)
      PROVE  /\ record[p].deployed = \E c \in Clusters : gitea[c][p] # Absent
             /\ record[p].files = record[p].deployed
  <2>1. /\ Left(r, p) /\ job[r].op \in Publishing
        /\ \A c \in Clusters : gitea[c][p] = tree[c][p]
        /\ record[p] = [deployed |-> Deployed(r), files |-> Deployed(r)]
    BY <1>1 DEF IInv, Settlement, Settled, Done, Synced
  <2>2. record[p].deployed = Deployed(r) /\ record[p].files = Deployed(r)
    BY <2>1
  <2>3. Complete(r) # Absent BY Assumptions DEF Complete, Absent
  <2>4. Deployed(r) <=> \E c \in Clusters : tree[c][p] # Absent
    <3>1. CASE job[r].op = "apply"
      BY <2>1, <2>3, <3>1, Cluster1 DEF Left, Deployed
    <3>2. CASE job[r].op = "push" BY <2>1, <3>2 DEF Left, Deployed
    <3>3. CASE job[r].op = "undeploy" BY <2>1, <3>3 DEF Left, Deployed
    <3> QED BY <2>1, <3>1, <3>2, <3>3 DEF Publishing
  <2>5. (\E c \in Clusters : tree[c][p] # Absent)
          = (\E c \in Clusters : gitea[c][p] # Absent)
    BY <2>1
  <2>6. Deployed(r) = (\E c \in Clusters : gitea[c][p] # Absent)
    BY <2>4, <2>5 DEF Deployed
  <2> QED BY <2>2, <2>6
<1>2. IInv => RecordMatchesGitea BY <1>1 DEF RecordMatchesGitea
<1> QED BY Invariance, <1>2, PTL
=============================================================================
