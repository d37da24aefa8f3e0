----------------------------- MODULE Deployment -----------------------------
(***************************************************************************)
(* GitOps deployment of profiles (gitea_apply.py) and of the benchmark     *)
(* namespaces (benchmark.py).  Every request renders into, or removes from *)
(* one working tree per cluster, and publishes it with one script          *)
(* (push_gitea_gitops.sh) that commits whatever lies in that tree, cluster *)
(* by cluster, and pushes it to Gitea.  No lock keeps requests apart.      *)
(* Requests visit all clusters: those of a profile do whatever they name   *)
(* (gitea_apply.py:228, 1090), those of the benchmark are taken to.        *)
(*                                                                         *)
(* The content of namespaces/<profile>/ is two sets of files, those of the *)
(* renderer and those of the controllers script that runs after it; each   *)
(* is named by the request that wrote it.  Left out: the live clusters     *)
(* (Config Sync follows Gitea), the GitHub mirror, the contents of the     *)
(* manifests, and the MySQL and node-selector patches after a push.        *)
(***************************************************************************)
EXTENDS Naturals, FiniteSets

CONSTANTS
    Requests,   \* requests; their identities name what they write
    Profiles,   \* profile names, which are namespaces
    Bench,      \* those of the benchmark: no record, other undeploy rule
    Operations, \* the operations requests ask for
    N,          \* number of clusters; scripts and loops visit 1..N in order
    MaxActive,  \* bound: requests that are served at a time
    NoOne

ASSUME Assumptions ==
    /\ N \in Nat \ {0}
    /\ NoOne \notin Requests
    /\ Operations \subseteq {"apply", "dry", "push", "undeploy", "clear"}

VARIABLES
    tree,       \* tree[c][p]: namespaces/<p>/ in the working tree of c
    head,       \* head[c][p]: the same at the branch's commit
    gitea,      \* gitea[c][p]: the same in Gitea
    record,     \* record[p]: the deploy columns of the profile's row
    job,        \* job[r]: the request and the local variables of its handler
    answered    \* answered[p]: the request that was answered ok last, if no
                \* other request for p was served meanwhile or since

vars == <<tree, head, gitea, record, job, answered>>

-----------------------------------------------------------------------------
Clusters == 1..N

Absent == [ns |-> NoOne, ctl |-> NoOne]

Idle == {"idle", "ended"}

(* The request, where its handler stands and at which cluster; what it has *)
(* noted (push: files were listed; undeploy: the script has to run; apply: *)
(* the deployed flag it read); whether the client has left while the       *)
(* script runs, and whether no other request for the profile was served.   *)
Jobs == [op : Operations, profile : Profiles,
         pc : Idle \cup {"render", "controllers", "list", "remove", "removed",
                         "commit", "push", "cleanup", "prior", "saveprior", "save"},
         at : Clusters, noted : BOOLEAN, gone : BOOLEAN, alone : BOOLEAN]

Of(p) == {r \in Requests : job[r].profile = p /\ job[r].pc \notin Idle}

Init ==
    /\ tree = [c \in Clusters |-> [p \in Profiles |-> Absent]]
    /\ head = tree
    /\ gitea = tree
    /\ record = [p \in Profiles |-> [deployed |-> FALSE, files |-> FALSE]]
    /\ job \in [Requests -> {j \in Jobs :
                   /\ j.pc = "idle" /\ j.at = 1
                   /\ j.alone /\ ~j.noted /\ ~j.gone
                   /\ j.profile \in Bench => j.op # "push"}]
    /\ answered = [p \in Profiles |-> NoOne]

-----------------------------------------------------------------------------
(* The handler of r goes on at a point, from the first cluster.            *)
At(r, point) == [job[r] EXCEPT !.pc = point, !.at = 1]

Goto(r, point) == job' = [job EXCEPT ![r] = At(r, point)]

(* The next round of a loop over the clusters, or what follows the loop.   *)
Onward(r, point, after) ==
    IF job[r].at < N THEN [job[r] EXCEPT !.pc = point, !.at = job[r].at + 1]
    ELSE At(r, after)

Loop(r, point, after) == job' = [job EXCEPT ![r] = Onward(r, point, after)]

Dir(r, where) == where[job[r].at][job[r].profile]

SetDir(r, dir) ==
    tree' = [tree EXCEPT ![job[r].at][job[r].profile] = dir]

(* The handler answers ok. *)
Answer(r) ==
    answered' = [answered EXCEPT ![job[r].profile] =
                   IF job[r].alone THEN r ELSE NoOne]

(* A request arrives.  _sync_repos only pulls, and ignores every failure.  *)
First == [apply |-> "render", dry |-> "render", push |-> "list",
          undeploy |-> "remove", clear |-> "remove"]

Start(r) ==
    LET p == job[r].profile
        others == Of(p)
    IN  /\ job[r].pc = "idle"
        /\ Cardinality({s \in Requests : job[s].pc \notin Idle}) < MaxActive
        /\ job' = [s \in Requests |->
                     IF s = r THEN [At(r, First[job[r].op]) EXCEPT
                                      !.alone = others = {}]
                     ELSE [job[s] EXCEPT !.alone = @ /\ s \notin others]]
        /\ answered' = [answered EXCEPT ![p] = NoOne]
        /\ UNCHANGED <<tree, head, gitea, record>>

-----------------------------------------------------------------------------
(* render_profile: purge and rewrite the directory of one cluster.         *)
Render(r) ==
    /\ job[r].pc = "render"
    /\ SetDir(r, [ns |-> r, ctl |-> NoOne])
    /\ Loop(r, "render", "controllers")
    /\ UNCHANGED <<head, gitea, record, answered>>

(* render_oai_controllers.sh adds its files on every cluster.              *)
Controllers(r) ==
    /\ job[r].pc = "controllers"
    /\ tree' = [c \in Clusters |->
                  [tree[c] EXCEPT ![job[r].profile].ctl = r]]
    /\ Goto(r, IF job[r].op = "apply" THEN "commit"
               ELSE IF job[r].profile \in Bench THEN "ended" ELSE "prior")
    /\ UNCHANGED <<head, gitea, record, answered>>

(* Any exception while rendering: answered with ok=False, nothing is saved *)
(* and what was written stays.                                             *)
RenderFails(r) ==
    /\ job[r].pc \in {"render", "controllers"}
    /\ Goto(r, "ended")
    /\ UNCHANGED <<tree, head, gitea, record, answered>>

(* push_to_gitea lists the files of the profile before it pushes.          *)
List(r) ==
    /\ job[r].pc = "list"
    /\ job' = [job EXCEPT ![r] = [At(r, "commit") EXCEPT !.noted =
                  \E c \in Clusters : tree[c][job[r].profile] # Absent]]
    /\ UNCHANGED <<tree, head, gitea, record, answered>>

(* _remove_profile_ns_dirs, _remove_bench_ns_dirs: one cluster.            *)
Remove(r) ==
    /\ job[r].pc = "remove"
    /\ SetDir(r, Absent)
    /\ LET seen == job[r].noted \/ Dir(r, tree) # Absent
       IN  job' = [job EXCEPT ![r] =
                     [Onward(r, "remove", "removed") EXCEPT !.noted = seen]]
    /\ UNCHANGED <<head, gitea, record, answered>>

(* _bench_tracked_in_git asks the index, which was last written by the     *)
(* script's "git add -A" and so agrees with the commit.                    *)
TrackedInGit(p) == \E c \in Clusters : head[c][p] # Absent

(* Clear saves.  Undeploy runs the script if something was removed; that   *)
(* of the benchmark also if git still tracks what is no longer there.      *)
Removed(r) ==
    LET j == job[r]
        needed == j.noted \/ (j.profile \in Bench /\ TrackedInGit(j.profile))
    IN  /\ j.pc = "removed"
        /\ job' = [job EXCEPT ![r] =
             [At(r, IF j.op = "clear"
                    THEN IF j.profile \in Bench THEN "ended" ELSE "save"
                    ELSE IF needed THEN "commit" ELSE "cleanup")
              EXCEPT !.noted = needed]]
        /\ UNCHANGED <<tree, head, gitea, record, answered>>

-----------------------------------------------------------------------------
(* What follows a script that succeeded.                                   *)
AfterScript(r) ==
    IF job[r].gone THEN "ended"
    ELSE IF job[r].op = "undeploy" THEN "cleanup"
    ELSE IF job[r].profile \in Bench THEN "ended" ELSE "save"

(* Mutant: a repository without a new commit is not pushed. *)
Commit_SkipsClean(r) ==
    LET c == job[r].at
    IN  /\ job[r].pc = "commit"
        /\ head' = [head EXCEPT ![c] = tree[c]]
        /\ IF head[c] = tree[c] THEN Loop(r, "commit", AfterScript(r))
           ELSE job' = [job EXCEPT ![r].pc = "push"]
        /\ UNCHANGED <<tree, gitea, record, answered>>

(* The script, one cluster: "git add -A" and "git commit" take the whole   *)
(* tree, those of other profiles included.                                 *)
Commit(r) ==
    /\ job[r].pc = "commit"
    /\ head' = [head EXCEPT ![job[r].at] = tree[job[r].at]]
    /\ job' = [job EXCEPT ![r].pc = "push"]
    /\ UNCHANGED <<tree, gitea, record, answered>>

(* "git push gitea HEAD" also publishes earlier commits that did not get   *)
(* there.  A benchmark deployment answers when the script has ended.       *)
Push(r) ==
    LET c == job[r].at
    IN  /\ job[r].pc = "push"
        /\ gitea' = [gitea EXCEPT ![c] = head[c]]
        /\ Loop(r, "commit", AfterScript(r))
        /\ IF c = N /\ AfterScript(r) = "ended" /\ ~job[r].gone
           THEN Answer(r) ELSE UNCHANGED answered
        /\ UNCHANGED <<tree, head, record>>

(* Any git command fails, or the pull meets a conflict: the script exits,  *)
(* and the clusters it has not reached keep what they had.  Apply still    *)
(* records the files it wrote; the others return.                          *)
ScriptFails(r) ==
    /\ job[r].pc \in {"commit", "push"}
    /\ Goto(r, IF job[r].op = "apply" /\ ~job[r].gone
                  /\ job[r].profile \notin Bench THEN "prior" ELSE "ended")
    /\ UNCHANGED <<tree, head, gitea, record, answered>>

(* _force_delete_profile_ns, best effort, on every cluster; the benchmark  *)
(* has no row to save.                                                     *)
Cleanup(r) ==
    /\ job[r].pc = "cleanup"
    /\ IF job[r].profile \in Bench
       THEN Goto(r, "ended") /\ Answer(r)
       ELSE Goto(r, "save") /\ UNCHANGED answered
    /\ UNCHANGED <<tree, head, gitea, record>>

-----------------------------------------------------------------------------
(* A dry run and a failed apply read the flag they are to leave unchanged, *)
(* and save it with the files they wrote.                                  *)
Prior(r) ==
    /\ job[r].pc = "prior"
    /\ job' = [job EXCEPT ![r].pc = "saveprior",
                         ![r].noted = record[job[r].profile].deployed]
    /\ UNCHANGED <<tree, head, gitea, record, answered>>

SetRecord(r, deployed, files) ==
    record' = [record EXCEPT ![job[r].profile] =
                 [deployed |-> deployed, files |-> files]]

SavePrior(r) ==
    /\ job[r].pc = "saveprior"
    /\ SetRecord(r, job[r].noted, TRUE)
    /\ Goto(r, "ended")
    /\ UNCHANGED <<tree, head, gitea, answered>>

(* Mutant: a push that succeeded always counts as a deployment. *)
Save_AlwaysDeployed(r) ==
    /\ job[r].pc = "save"
    /\ LET deployed == job[r].op \in {"apply", "push"}
       IN  SetRecord(r, deployed, deployed)
    /\ Goto(r, "ended")
    /\ IF job[r].op = "clear" THEN UNCHANGED answered ELSE Answer(r)
    /\ UNCHANGED <<tree, head, gitea>>

(* save_deploy_state of an apply, push, undeploy or clear that succeeded.  *)
Save(r) ==
    /\ job[r].pc = "save"
    /\ LET deployed == \/ job[r].op = "apply"
                       \/ job[r].op = "push" /\ job[r].noted
       IN  SetRecord(r, deployed, deployed)
    /\ Goto(r, "ended")
    /\ IF job[r].op = "clear" THEN UNCHANGED answered ELSE Answer(r)
    /\ UNCHANGED <<tree, head, gitea>>

(* The client of a stream leaves.  The generator is closed at its yield    *)
(* and saves nothing; a script that runs goes on by itself.                *)
Disconnect(r) ==
    /\ \/ /\ \/ job[r].pc \in {"remove", "commit"} /\ job[r].at = 1
             \/ job[r].pc = "removed" /\ (job[r].noted \/ job[r].op = "undeploy")
             \/ job[r].pc = "prior" /\ job[r].op = "dry"
             \/ job[r].pc = "cleanup"
          /\ Goto(r, "ended")
       \/ /\ job[r].pc \in {"commit", "push"} /\ ~job[r].gone
          /\ job' = [job EXCEPT ![r].gone = TRUE]
    /\ UNCHANGED <<tree, head, gitea, record, answered>>

Next ==
    \E r \in Requests :
        \/ Start(r) \/ Disconnect(r)
        \/ Render(r) \/ Controllers(r) \/ RenderFails(r)
        \/ List(r) \/ Remove(r) \/ Removed(r)
        \/ Commit(r) \/ Push(r) \/ ScriptFails(r) \/ Cleanup(r)
        \/ Prior(r) \/ SavePrior(r) \/ Save(r)

Spec == Init /\ [][Next]_vars

-----------------------------------------------------------------------------
(* Once a request that published was answered ok, and until the next one   *)
(* for its profile, every cluster's Gitea has what the request left in the *)
(* working tree, whole: what an apply rendered, or nothing.  This holds    *)
(* although the clusters are published one by one, earlier requests may    *)
(* have failed in between, and requests for other profiles commit and push *)
(* the same trees at any time.                                             *)
Published(r) == job[r].op \in {"apply", "push"} \/ job[r].noted

AnswerIsInGitea ==
    \A p \in Profiles, r \in Requests :
        answered[p] = r /\ Published(r) =>
            \A c \in Clusters :
                /\ gitea[c][p] = tree[c][p]
                /\ job[r].op = "apply" => gitea[c][p] = [ns |-> r, ctl |-> r]
                /\ job[r].op = "undeploy" => gitea[c][p] = Absent

(* At the same moments the profile's row says "deployed" exactly when its  *)
(* manifests are in Gitea, whatever earlier requests left behind when they *)
(* failed or their clients went away.                                      *)
RecordMatchesGitea ==
    \A p \in Profiles \ Bench, r \in Requests :
        answered[p] = r /\ Published(r) =>
            /\ record[p].deployed =
                    \E c \in Clusters : gitea[c][p] # Absent
            /\ record[p].files = record[p].deployed

(* What the docstring of undeploy_from_gitea promises: "Undeploy (clear +  *)
(* push + force cluster cleanup)".                                         *)
UndeployedIsGone ==
    \A p \in Profiles, r \in Requests :
        answered[p] = r /\ job[r].op = "undeploy" =>
            \A c \in Clusters : gitea[c][p] = Absent
=============================================================================
