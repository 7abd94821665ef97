--------------------------- MODULE PatternSource ---------------------------
(***************************************************************************)
(* Where the files of a pattern come from: the defaults of the git         *)
(* settings and the local path (applyDefaults), the fork in the in-cluster *)
(* Gitea (createGiteaInstance), the local clone (getLocalGit, checkout.go),*)
(* the check that the values file is there (preValidation), and the        *)
(* Application that is made of them.                                       *)
(*                                                                         *)
(* Repositories change while the operator clones, fetches and checks out;  *)
(* the clone outlives a reconciliation but not a restart of the operator.  *)
(* Git itself is external: what a clone, a fetch and a checkout leave      *)
(* behind is go-git's, as vendored.                                        *)
(***************************************************************************)
EXTENDS Naturals, FiniteSets

CONSTANTS
  Urls,        \* the repositories a user may name
  Active,      \* the repositories somebody works on
  Alike,       \* those whose addresses getLocalGitPath maps to one path
  GiteaUrl,    \* the fork in the in-cluster Gitea
  NoUrl,       \* no address
  Names,       \* names of branches and tags
  Main,        \* the default branch
  Origins,     \* what spec.gitSpec.originRepo may be
  Revisions,   \* what spec.gitSpec.targetRevision may be
  MaxCommits,  \* how many commits a repository may have
  MaxFaults,   \* how many calls may fail and how often the operator may crash
  MaxEdits     \* how often users change the Pattern, and upstream its branches

ASSUME SourceAssumption ==
  /\ IsFiniteSet(Urls) /\ Alike \subseteq Urls /\ Main \in Names
  /\ Active \subseteq Urls \union {GiteaUrl}
  /\ NoUrl \notin Urls /\ GiteaUrl \notin Urls \union {NoUrl}
  /\ NoUrl \in Origins /\ Origins \subseteq Urls \union {NoUrl}
  /\ {"", "HEAD"} \intersect Names = {} /\ Revisions \subseteq Names \union {"", "HEAD"}
  /\ MaxCommits \in Nat \ {0} /\ MaxFaults \in Nat /\ MaxEdits \in Nat

VARIABLES
  remotes,     \* the repositories
  pattern,     \* the stored Pattern: git settings, and of the status what depends on them
  cache,       \* the informer's copy of it
  cacheCurrent,
  gitea,       \* the Gitea server: its secret, Application, and the password it started with
  disk,        \* the local clones, "/tmp/vp"
  app,         \* what the Application was made of and checked against
  pc,          \* what Reconcile does next
  instance,    \* its copy of the Pattern, qualifiedInstance after applyDefaults
  instCurrent, \* of the stored version
  seen,        \* the repository as it was when it was fetched last
  faults, edits

storedVars == <<pattern, cache, cacheCurrent, instCurrent>>
copyVars == <<cache, cacheCurrent, instance, instCurrent>>
vars == <<remotes, pattern, copyVars, gitea, disk, app, pc, seen, faults, edits>>

-----------------------------------------------------------------------------
AllUrls == Urls \union {GiteaUrl}

(* values: the values file the Pattern requires is among its files.        *)
Commit == [repo: AllUrls, n: 1..MaxCommits, values: BOOLEAN]
NoCommit == [repo |-> NoUrl, n |-> 0, values |-> FALSE]
Refs == [Names -> Commit \union {NoCommit}]
NoRefs == [name \in Names |-> NoCommit]

Remote == [branches: Refs, tags: Refs]
NoRemote == [branches |-> NoRefs, tags |-> NoRefs]
Exists(url) == remotes[url] # NoRemote

(* A local repository: branches that track the remote ones, the branch     *)
(* that is checked out at first, tags and HEAD.  files are the commits     *)
(* whose files lie in the directory; url is NoUrl where there is no .git.  *)
Clone == [url: AllUrls \union {NoUrl}, tracking: Refs, tags: Refs,
          main: Commit \union {NoCommit}, head: Commit \union {NoCommit},
          files: SUBSET Commit]
NoClone == [url |-> NoUrl, tracking |-> NoRefs, tags |-> NoRefs,
            main |-> NoCommit, head |-> NoCommit, files |-> {}]

(* getLocalGitPath: "/tmp/vp" and the address, normalized, with its        *)
(* slashes and colons replaced; so it is one path for some addresses.      *)
LocalGitPath(url) == IF url \in Alike THEN CHOOSE alike \in Alike : TRUE ELSE url
Paths == {LocalGitPath(url) : url \in AllUrls \union {NoUrl}}

(* step: LastStep, as far as Complete depends on it. *)
Pattern == [url: AllUrls \union {NoUrl}, origin: Origins, revision: Revisions \union {"HEAD"},
            path: Paths \union {""}, missing: BOOLEAN, step: {"", "other", "reconcile complete"}]
NoPattern == [url |-> NoUrl, origin |-> NoUrl, revision |-> "HEAD",
              path |-> "", missing |-> FALSE, step |-> ""]

(* checked: the files it was compared with last.                           *)
Made == [url: AllUrls, revision: Names \union {"HEAD"}, checked: SUBSET Commit]
NotMade == [url |-> NoUrl, revision |-> "", checked |-> {}]

Calls == {"idle", "applyDefaults", "giteaSecret", "giteaApplication", "migrate", "retarget",
          "getLocalGit", "clone", "fetch", "checkout", "preValidation", "application",
          "complete", "actionPerformed"}

RepositoryTypes ==
  /\ remotes \in [AllUrls -> Remote]
  /\ disk \in [Paths -> Clone]
  /\ seen \in Remote
  /\ app \in Made \union {NotMade}
PatternTypes ==
  /\ pattern \in Pattern /\ cache \in Pattern /\ instance \in Pattern
  /\ cacheCurrent \in BOOLEAN /\ instCurrent \in BOOLEAN
StepTypes ==
  /\ pc \in Calls
  /\ gitea \in [secret: {"none", "first", "second"}, app: {"absent", "ours", "outdated", "foreign"},
                runsWith: {"none", "first", "second"}]
  /\ faults \in 0..MaxFaults /\ edits \in 0..MaxEdits
TypeOK == RepositoryTypes /\ PatternTypes /\ StepTypes

Init ==
  /\ remotes = [url \in AllUrls |->
       IF url = GiteaUrl THEN NoRemote
       ELSE [NoRemote EXCEPT !.branches[Main] = [repo |-> url, n |-> 1, values |-> TRUE]]]
  /\ \E origin \in Origins, url \in Urls, revision \in Revisions :
       pattern = [url |-> IF origin = NoUrl THEN url ELSE NoUrl, origin |-> origin,
                  revision |-> revision, path |-> "", missing |-> FALSE, step |-> ""]
  /\ cache = pattern /\ cacheCurrent = TRUE
  /\ gitea = [secret |-> "none", app |-> "absent", runsWith |-> "none"]
  /\ disk = [p \in Paths |-> NoClone]
  /\ app = NotMade
  /\ pc = "idle" /\ instance = NoPattern /\ instCurrent = FALSE
  /\ seen = NoRemote
  /\ faults = 0 /\ edits = 0

-----------------------------------------------------------------------------
(* The reconciler.  Each step is a call; another process may act between   *)
(* two of them.                                                            *)

Fault == faults < MaxFaults /\ faults' = faults + 1

(* A step that ends the reconciliation, by way of actionPerformed.         *)
Ends == pc' = "actionPerformed"

DropLocalGitPaths == [p \in Paths |-> NoClone]

Get ==
  /\ pc = "idle"
  /\ instance' = cache /\ instCurrent' = cacheCurrent
  /\ pc' = "applyDefaults"
  /\ UNCHANGED <<remotes, pattern, cache, cacheCurrent, gitea, disk, app, seen, faults, edits>>

(* A Pattern with an origin is served from the fork.                       *)
UnlessNamed == instance.origin # NoUrl /\ instance.url = NoUrl
WithOrigin == instance.origin # NoUrl

(* Reading the cluster's configuration may fail, before anything is        *)
(* defaulted; so may one of the steps between this and the ones below.     *)
ApplyDefaults ==
  /\ pc = "applyDefaults"
  /\ \/ /\ Fault /\ Ends
        /\ UNCHANGED <<instance, disk>>
     \/ LET local == LocalGitPath(instance.url)
        IN /\ instance' = [instance EXCEPT !.path = local,
                             !.revision = IF @ = "" THEN "HEAD" ELSE @]
           /\ disk' = IF local = instance.path THEN disk ELSE DropLocalGitPaths
           /\ \/ /\ pc' = IF WithOrigin THEN "giteaSecret" ELSE "getLocalGit"
                 /\ UNCHANGED faults
              \/ Fault /\ Ends
  /\ UNCHANGED <<remotes, pattern, cache, cacheCurrent, gitea, app, instCurrent, seen, edits>>

(* Each reconciliation makes up a password; Create leaves a Secret that is *)
(* there alone.                                                            *)
Overwritten(secret) == IF secret = "first" THEN "second" ELSE "first"
Kept(secret) == IF secret = "none" THEN "first" ELSE secret

GiteaSecret ==
  /\ pc = "giteaSecret"
  /\ \/ /\ gitea' = [gitea EXCEPT !.secret = Kept(@)]
        /\ pc' = "giteaApplication" /\ UNCHANGED faults
     \/ Fault /\ Ends /\ UNCHANGED gitea
  /\ UNCHANGED <<remotes, pattern, copyVars, disk, app, seen, edits>>

(* Creating the Application ends the step as a failure even where it       *)
(* succeeds: the error is wrapped whether there is one or not.             *)
GiteaApplication ==
  /\ pc = "giteaApplication"
  /\ \/ /\ gitea.app = "absent" /\ Ends
        /\ \/ gitea' = [gitea EXCEPT !.app = "ours"] /\ UNCHANGED faults
           \/ Fault /\ UNCHANGED gitea
        /\ UNCHANGED disk
     \/ /\ gitea.app = "outdated" /\ Ends
        /\ \/ gitea' = [gitea EXCEPT !.app = "ours"] /\ UNCHANGED faults
           \/ Fault /\ UNCHANGED gitea
        /\ disk' = DropLocalGitPaths
     \/ gitea.app = "foreign" /\ Ends /\ UNCHANGED <<gitea, disk, faults>>
     \/ gitea.app = "ours" /\ Ends /\ Fault /\ UNCHANGED <<gitea, disk>>
     \/ /\ gitea.app = "ours" /\ pc' = "migrate"
        /\ UNCHANGED <<gitea, disk, faults>>
  /\ UNCHANGED <<remotes, pattern, copyVars, app, seen, edits>>

(* MigrateGiteaRepo: Gitea copies the origin once, it is no mirror, and it *)
(* is fine that the copy is there.                                         *)
MigratesAnew == gitea.runsWith # "none" /\ gitea.runsWith = gitea.secret /\ ~Exists(GiteaUrl)
LogsIn == gitea.runsWith # "none" /\ gitea.runsWith = gitea.secret
Forked == [remotes EXCEPT ![GiteaUrl] = IF Exists(GiteaUrl) THEN @ ELSE remotes[instance.origin]]

Migrate ==
  /\ pc = "migrate"
  /\ \/ /\ LogsIn
        /\ remotes' = Forked
        /\ \/ pc' = "retarget" /\ UNCHANGED faults
           \/ Fault /\ Ends
     \/ ~LogsIn /\ Ends /\ UNCHANGED <<remotes, faults>>
     \/ Fault /\ Ends /\ UNCHANGED remotes
  /\ UNCHANGED <<pattern, copyVars, gitea, disk, app, seen, edits>>

(* The update carries what applyDefaults filled in; the answer replaces    *)
(* the copy, and with its status the local path that was stored last.      *)
AcceptedAnyway == TRUE
Accepted == instCurrent

Retarget ==
  /\ pc = "retarget"
  /\ \/ /\ Accepted
        /\ pattern' = [pattern EXCEPT !.url = GiteaUrl, !.revision = instance.revision]
        /\ cacheCurrent' = (cacheCurrent /\ pattern' = pattern)
        /\ instance' = pattern' /\ instCurrent' = TRUE
        /\ pc' = "getLocalGit" /\ UNCHANGED faults
     \/ /\ Fault \/ (~Accepted /\ UNCHANGED faults)
        /\ Ends /\ UNCHANGED <<pattern, cacheCurrent, instance, instCurrent>>
  /\ UNCHANGED <<remotes, cache, gitea, disk, app, seen, edits>>

-----------------------------------------------------------------------------
(* The local clone.  Whatever fails here takes Missing off the copy.       *)
Local == IF instance.path = "" THEN NoClone ELSE disk[instance.path]
Reachable(url) == url \in AllUrls /\ Exists(url)

MissingBecomes(missing) == instance' = [instance EXCEPT !.missing = missing]
EndsNotMissing == Ends /\ MissingBecomes(FALSE)
EndsWithout(condition) ==
  /\ Fault \/ (~condition /\ UNCHANGED faults)
  /\ EndsNotMissing

(* Where the clone is of another repository its .git is removed; the files *)
(* it has checked out stay.                                                *)
OfAnything(clone) == clone.url # NoUrl
OfTheTarget(clone) == clone.url = instance.url

GetLocalGit ==
  /\ pc = "getLocalGit"
  /\ \/ /\ Local.url # NoUrl
        /\ IF OfTheTarget(Local)
           THEN pc' = "fetch" /\ UNCHANGED disk
           ELSE /\ disk' = [disk EXCEPT ![instance.path] = [NoClone EXCEPT !.files = Local.files]]
                /\ pc' = "clone"
        /\ UNCHANGED <<instance, faults>>
     \/ /\ Local.url = NoUrl
        /\ pc' = "clone" /\ UNCHANGED <<instance, disk, faults>>
     \/ EndsWithout(TRUE) /\ UNCHANGED disk
  /\ UNCHANGED <<remotes, storedVars, gitea, app, seen, edits>>

(* go-git cleans up after a clone that fails only where the directory was  *)
(* empty; otherwise it leaves a .git that names the remote and holds no    *)
(* references.  Without a path the clone goes to the working directory, in *)
(* which the operator may not write.                                       *)
Cloned ==
  LET remote == remotes[instance.url]
      tip == remote.branches[Main]
  IN [url |-> instance.url, tracking |-> remote.branches, tags |-> remote.tags,
      main |-> tip, head |-> tip, files |-> Local.files \union {tip}]
Leftover == IF Local.files = {} THEN NoClone
            ELSE [NoClone EXCEPT !.url = instance.url, !.files = Local.files]

CloneRepo ==
  /\ pc = "clone"
  /\ \/ /\ instance.path # "" /\ Reachable(instance.url)
        /\ disk' = [disk EXCEPT ![instance.path] = Cloned]
        /\ pc' = "fetch" /\ UNCHANGED <<instance, faults>>
     \/ /\ instance.path # "" /\ EndsWithout(Reachable(instance.url))
        /\ disk' = [disk EXCEPT ![instance.path] = Leftover]
     \/ /\ instance.path = "" /\ EndsWithout(FALSE) /\ UNCHANGED disk
  /\ UNCHANGED <<remotes, storedVars, gitea, app, seen, edits>>

(* The fetch does not prune: references the remote no longer has stay.     *)
FetchedOnly(old, new) == [name \in {n \in Names : new[n] # NoCommit} |-> new[name]]
FetchedUnforced(old, new) ==
  [name \in Names |-> IF old[name] # NoCommit THEN old[name] ELSE new[name]]
Fetched(old, new) == [name \in Names |-> IF new[name] = NoCommit THEN old[name] ELSE new[name]]

Fetch ==
  /\ pc = "fetch"
  /\ \/ /\ Reachable(Local.url)
        /\ LET remote == remotes[Local.url]
           IN /\ disk' = [disk EXCEPT ![instance.path].tracking = Fetched(@, remote.branches),
                                      ![instance.path].tags = Fetched(@, remote.tags)]
              /\ seen' = remote
        /\ pc' = "checkout" /\ UNCHANGED <<instance, faults>>
     \/ EndsWithout(Reachable(Local.url)) /\ UNCHANGED <<disk, seen>>
  /\ UNCHANGED <<remotes, storedVars, gitea, app, edits>>

(* getCommitFromTarget: HEAD is the clone's own; a name is a branch of the *)
(* remote, or else the branch checked out at first, or else a tag.  A full *)
(* hash, which no Revisions has, would be its commit whatever has moved.   *)
LocalBranchFirst(clone, revision) ==
  IF revision = "HEAD" THEN clone.head
  ELSE IF revision = Main /\ clone.main # NoCommit THEN clone.main
  ELSE IF clone.tracking[revision] # NoCommit THEN clone.tracking[revision]
  ELSE clone.tags[revision]
GetCommitFromTarget(clone, revision) ==
  IF revision = "HEAD" THEN clone.head
  ELSE IF clone.tracking[revision] # NoCommit THEN clone.tracking[revision]
  ELSE IF revision = Main /\ clone.main # NoCommit THEN clone.main
  ELSE clone.tags[revision]

(* The checkout is a hard reset: it leaves no other files.                 *)
CheckoutRevision ==
  /\ pc = "checkout"
  /\ LET commit == GetCommitFromTarget(Local, instance.revision)
     IN \/ /\ commit # NoCommit
           /\ disk' = [disk EXCEPT ![instance.path].head = commit, ![instance.path].files = {commit}]
           /\ pc' = "preValidation" /\ UNCHANGED <<instance, faults>>
        \/ EndsWithout(commit # NoCommit) /\ UNCHANGED disk
  /\ UNCHANGED <<remotes, storedVars, gitea, app, seen, edits>>

(* The values file is looked for among the files; its absence is what      *)
(* Missing says.                                                           *)
FoundOrUnknown == pattern.path = "" \/ \E commit \in Local.files : commit.values
ValuesFileFound == \E commit \in Local.files : commit.values

PreValidation ==
  /\ pc = "preValidation"
  /\ MissingBecomes(~ValuesFileFound)
  /\ pc' = IF ValuesFileFound THEN "application" ELSE "actionPerformed"
  /\ UNCHANGED <<remotes, storedVars, gitea, disk, app, seen, faults, edits>>

(* reconcileApplication: the Application names the repository and the      *)
(* revision; what else it says may or may not depend on the files.         *)
Same == app.url = instance.url /\ app.revision = instance.revision
Target == [url |-> instance.url, revision |-> instance.revision, checked |-> Local.files]

Application ==
  /\ pc = "application"
  /\ \/ /\ app = NotMade /\ Ends
        /\ \/ app' = Target /\ UNCHANGED faults
           \/ Fault /\ UNCHANGED app
        /\ UNCHANGED disk
     \/ /\ app # NotMade /\ Same
        /\ app' = Target
        /\ pc' = "complete" /\ UNCHANGED <<disk, faults>>
     \/ /\ app # NotMade /\ (~Same \/ app.checked # Local.files)
        /\ Ends
        /\ \/ app' = Target /\ UNCHANGED faults
           \/ Fault /\ UNCHANGED app
        /\ disk' = DropLocalGitPaths
     \/ app # NotMade /\ Ends /\ Fault /\ UNCHANGED <<app, disk>>
  /\ UNCHANGED <<remotes, storedVars, instance, gitea, seen, edits>>

(* A write of the status is accepted of the stored version only.           *)
Writes(step) ==
  /\ instCurrent
  /\ pattern' = [pattern EXCEPT !.path = instance.path, !.missing = instance.missing,
                                !.step = step]
  /\ cacheCurrent' = FALSE
Keeps == UNCHANGED <<pattern, cacheCurrent>>

(* The copy is not used any more. *)
Returns ==
  /\ pc' = "idle"
  /\ instance' = NoPattern /\ instCurrent' = FALSE /\ seen' = NoRemote

(* The status is written at the end where it does not say "complete" yet,  *)
(* and with the Applications where these have changed.                     *)
Complete ==
  /\ pc = "complete" /\ Returns
  /\ \/ Writes("reconcile complete") /\ UNCHANGED faults
     \/ /\ Keeps
        /\ \/ Fault
           \/ (instance.step = "reconcile complete" \/ ~instCurrent) /\ UNCHANGED faults
  /\ UNCHANGED <<remotes, cache, gitea, disk, app, edits>>

ActionPerformed ==
  /\ pc = "actionPerformed" /\ Returns
  /\ \/ Writes("other") /\ UNCHANGED faults
     \/ ~instCurrent /\ Keeps /\ UNCHANGED faults
     \/ Fault /\ Keeps
  /\ UNCHANGED <<remotes, cache, gitea, disk, app, edits>>

(* The operator restarts; nothing is mounted at /tmp.                      *)
Crash ==
  /\ Fault
  /\ Returns /\ disk' = DropLocalGitPaths
  /\ cache' = pattern /\ cacheCurrent' = TRUE
  /\ UNCHANGED <<remotes, pattern, gitea, app, edits>>

Reconcile ==
  \/ Get \/ ApplyDefaults
  \/ GiteaSecret \/ GiteaApplication \/ Migrate \/ Retarget
  \/ GetLocalGit \/ CloneRepo \/ Fetch \/ CheckoutRevision \/ PreValidation
  \/ Application \/ Complete \/ ActionPerformed

-----------------------------------------------------------------------------
(* The others.                                                             *)
operatorVars == <<disk, app, pc, instance, seen>>

Edit == edits < MaxEdits /\ edits' = edits + 1

UserEdits ==
  /\ Edit
  /\ \/ \E url \in Urls : pattern' = [pattern EXCEPT !.url = url]
     \/ \E origin \in Origins : pattern' = [pattern EXCEPT !.origin = origin]
     \/ \E revision \in Revisions : pattern' = [pattern EXCEPT !.revision = revision]
  /\ pattern' # pattern
  /\ cacheCurrent' = FALSE /\ instCurrent' = FALSE
  /\ UNCHANGED <<remotes, cache, gitea, operatorVars, faults>>

Sync ==
  /\ ~cacheCurrent
  /\ cache' = pattern /\ cacheCurrent' = TRUE
  /\ UNCHANGED <<remotes, pattern, instCurrent, gitea, operatorVars, faults, edits>>

Tip(url, name) == remotes[url].branches[name]

Push(url, name) ==
  \E n \in 1..MaxCommits, values \in BOOLEAN :
    /\ \A other \in Names : Tip(url, other).n < n
    /\ n = 1 \/ \E other \in Names : Tip(url, other).n = n - 1
    /\ remotes' = [remotes EXCEPT ![url].branches[name] =
                     [repo |-> url, n |-> n, values |-> values]]

TagMain(url, name) ==
  /\ remotes[url].tags[name] # Tip(url, Main)
  /\ remotes' = [remotes EXCEPT ![url].tags[name] = Tip(url, Main)]

DeleteBranch(url, name) ==
  /\ name # Main /\ Tip(url, name) # NoCommit
  /\ remotes' = [remotes EXCEPT ![url].branches[name] = NoCommit]

RemoteChanges ==
  /\ Edit
  /\ \E url \in Active, name \in Names :
       Exists(url) /\ (Push(url, name) \/ TagMain(url, name) \/ DeleteBranch(url, name))
  /\ UNCHANGED <<pattern, cache, cacheCurrent, instCurrent, gitea, operatorVars, faults>>

GiteaStarts ==
  /\ gitea.app # "absent" /\ gitea.runsWith = "none" /\ gitea.secret # "none"
  /\ gitea' = [gitea EXCEPT !.runsWith = gitea.secret]
  /\ UNCHANGED <<remotes, storedVars, operatorVars, faults, edits>>

(* The chart is configured anew, or the owner reference is taken off.      *)
GiteaApplicationChanges ==
  /\ Edit
  /\ gitea.app = "ours"
  /\ \E state \in {"outdated", "foreign"} : gitea' = [gitea EXCEPT !.app = state]
  /\ UNCHANGED <<remotes, storedVars, operatorVars, faults>>

Next == Reconcile \/ Crash \/ UserEdits \/ Sync \/ RemoteChanges \/ GiteaStarts
        \/ GiteaApplicationChanges

(* A Pattern is looked at again, when a step has failed and when all are   *)
(* done; informers and the cluster make progress.                          *)
Spec == Init /\ [][Next]_vars /\ WF_vars(Reconcile) /\ WF_vars(Sync) /\ WF_vars(GiteaStarts)

-----------------------------------------------------------------------------
(* What is true of it.                                                     *)

(* A commit of the repository at url, or of what was copied there.         *)
Belongs(commit, url) == commit.repo = url \/ (url = GiteaUrl /\ commit.repo \in Origins)

(* What is checked out for the target repository is a commit of it, even   *)
(* where another repository had the same local path before: getLocalGit    *)
(* compares the clone's remote with the target.                            *)
NoForeignFiles ==
  /\ (pc = "preValidation" => \A commit \in Local.files : Belongs(commit, instance.url))
  /\ \A commit \in app.checked : Belongs(commit, app.url)

(* A named branch is checked out at the tip the fetch has just seen: the   *)
(* clone's own branches never move and do not stand in for it              *)
(* (getCommitFromTarget, "Try remote tracking ref first").                 *)
NamedRevisionIsFresh ==
  pc = "preValidation" /\ instance.revision \in Names
     /\ seen.branches[instance.revision] # NoCommit
  => Local.files = {seen.branches[instance.revision]}

(* Whatever runs, the Application was made of files in which the values    *)
(* file had been found, and of one commit (preValidation, checkout).       *)
AppliedWasValidated ==
  app # NotMade => \E commit \in app.checked : app.checked = {commit} /\ commit.values

(* The Gitea server has the password in the Secret: later reconciliations  *)
(* make up others and never replace it, so the operator can log in         *)
(* (createGiteaInstance).                                                  *)
GiteaLetsOperatorIn == gitea.runsWith # "none" => gitea.runsWith = gitea.secret

(* Of the stored settings the operator changes the target repository to    *)
(* the fork, if there is an origin, and an empty revision to HEAD; an edit *)
(* it has not read is not overwritten (createGiteaInstance, Update).       *)
EditsStand ==
  [][edits' = edits =>
       /\ pattern'.origin = pattern.origin
       /\ pattern'.url \in {pattern.url, IF pattern.origin = NoUrl THEN pattern.url ELSE GiteaUrl}
       /\ pattern'.revision \in {pattern.revision, IF pattern.revision = "" THEN "HEAD"
                                                   ELSE pattern.revision}]_vars

(* Once users leave off, a branch that is named is followed: its tip is    *)
(* what the Application was checked against, or Missing says that the      *)
(* values file is not in it (Reconcile's loop, getLocalGit, preValidation).*)
(* An exception is a Pattern with an origin of which no status has been    *)
(* stored yet: the answer to the update takes the path off the copy.       *)
Followed(url, revision) ==
  LET tip == Tip(url, revision)
  IN IF tip.values THEN app.checked = {tip} /\ app.url = url /\ ~pattern.missing
     ELSE pattern.missing
UpstreamIsFollowed ==
  <>[](pattern.revision \in Names /\ pattern.url \in AllUrls
         /\ (pattern.origin # NoUrl => pattern.url = GiteaUrl /\ pattern.path # "")
         /\ gitea.app # "foreign"
       => Reachable(pattern.url) /\ (Tip(pattern.url, pattern.revision) # NoCommit
                                       => Followed(pattern.url, pattern.revision)))

(* A Pattern with an origin ends up at the fork, whatever step failed or   *)
(* was repeated on the way, if the operator owns the Gitea Application     *)
(* (createGiteaInstance).                                                  *)
ForkIsServed ==
  <>[](pattern.origin # NoUrl /\ gitea.app # "foreign" => pattern.url = GiteaUrl /\ Exists(GiteaUrl))
=============================================================================
