------------------------ MODULE PatternSource_proofs ------------------------
(***************************************************************************)
(* Where the files come from, for any repositories, branches, revisions,   *)
(* failures, crashes and edits: what is deployed is of the repository that *)
(* is asked for, fresh and validated, and edits stand; and the whole does  *)
(* what DeployedSource promises.                                           *)
(***************************************************************************)
EXTENDS SourceRefinement, TLAPS

(* A copy that counts as current has the settings of the stored Pattern,   *)
(* but for an empty revision; and the fork is for Patterns with an origin. *)
Copies ==
  /\ cacheCurrent => cache = pattern
  /\ instCurrent => /\ instance.origin = pattern.origin
                    /\ \/ instance.revision = pattern.revision
                       \/ pattern.revision = "" /\ instance.revision = "HEAD"
  /\ pc \in {"giteaSecret", "giteaApplication", "migrate", "retarget"} => instance.origin # NoUrl
  /\ pc \notin {"idle", "applyDefaults", "complete", "actionPerformed"} => instance.revision # ""

(* References name commits of a repository, or none.                       *)
OwnRefs(refs, url) == \A name \in Names : refs[name] # NoCommit => Belongs(refs[name], url)

OwnRemotes ==
  \A url \in AllUrls : OwnRefs(remotes[url].branches, url) /\ OwnRefs(remotes[url].tags, url)

(* The default branch is there as long as the repository is.               *)
MainStands == \A url \in AllUrls : Exists(url) => remotes[url].branches[Main] # NoCommit

OwnClone(clone) ==
  clone.url # NoUrl =>
    /\ OwnRefs(clone.tracking, clone.url) /\ OwnRefs(clone.tags, clone.url)
    /\ clone.main # NoCommit => Belongs(clone.main, clone.url)
    /\ clone.head # NoCommit => Belongs(clone.head, clone.url)
OwnClones == \A p \in Paths : OwnClone(disk[p])

(* From the fetch on the local clone is of the target, and its references  *)
(* are what has been seen.  Then one commit is checked out, and then it is *)
(* known to have the values file.                                          *)
Working ==
  /\ pc \in {"fetch", "checkout", "preValidation", "application"} =>
       instance.path # "" /\ Local.url = instance.url /\ instance.url # NoUrl
  /\ pc = "checkout" => \A name \in Names : seen.branches[name] # NoCommit
                                             => Local.tracking[name] = seen.branches[name]
  /\ pc \in {"preValidation", "application"} =>
       \E commit \in Commit : Local.files = {commit} /\ Belongs(commit, instance.url)
  /\ pc = "application" => \A commit \in Local.files : commit.values

Deployed ==
  /\ AppliedWasValidated
  /\ \A commit \in app.checked : Belongs(commit, app.url)

SourceInv ==
  /\ TypeOK /\ Copies /\ MainStands /\ OwnRemotes /\ OwnClones /\ Working /\ Deployed
  /\ NamedRevisionIsFresh /\ GiteaLetsOperatorIn

-----------------------------------------------------------------------------
(* What the definitions are made of.                                       *)

LEMMA UrlsApart == NoUrl \notin AllUrls /\ Urls \subseteq AllUrls /\ GiteaUrl \in AllUrls
  BY SourceAssumption DEF AllUrls

LEMMA BoundsAreNat == MaxCommits \in Nat \ {0} /\ MaxFaults \in Nat /\ MaxEdits \in Nat
  BY SourceAssumption

LEMMA NoCommitIsNone == NoCommit \notin Commit
  BY UrlsApart DEF NoCommit, Commit

LEMMA NoRefsAreRefs == NoRefs \in Refs
  BY DEF NoRefs, Refs

LEMMA NoCloneIsAClone == NoClone \in Clone /\ DropLocalGitPaths \in [Paths -> Clone]
<1>1. NoClone \in Clone
  BY NoRefsAreRefs DEF NoClone, Clone
<1>2. QED
  BY <1>1 DEF DropLocalGitPaths

LEMMA PathsOfUrls ==
  ASSUME NEW url \in AllUrls \union {NoUrl}
  PROVE  LocalGitPath(url) \in Paths
  BY DEF Paths

LEMMA FetchedRefs ==
  ASSUME NEW old \in Refs, NEW new \in Refs
  PROVE  /\ Fetched(old, new) \in Refs
         /\ \A name \in Names : /\ new[name] # NoCommit => Fetched(old, new)[name] = new[name]
                                /\ new[name] = NoCommit => Fetched(old, new)[name] = old[name]
  BY DEF Fetched, Refs

LEMMA LocalIsAClone ==
  ASSUME RepositoryTypes, PatternTypes
  PROVE  Local \in Clone
<1>1. instance.path \in Paths \union {""}
  BY DEF PatternTypes, Pattern
<1>2. QED
  BY <1>1, NoCloneIsAClone DEF Local, RepositoryTypes

LEMMA InstanceFields ==
  ASSUME PatternTypes
  PROVE  /\ instance.url \in AllUrls \union {NoUrl} /\ instance.origin \in Origins
         /\ instance.revision \in Revisions \union {"HEAD"} /\ instance.path \in Paths \union {""}
         /\ instance.missing \in BOOLEAN /\ instance.step \in {"", "other", "reconcile complete"}
  BY DEF PatternTypes, Pattern

LEMMA NoPatternIsAPattern == NoPattern \in Pattern
  BY SourceAssumption DEF NoPattern, Pattern

LEMMA NoRemoteIsARemote == NoRemote \in Remote
  BY NoRefsAreRefs DEF NoRemote, Remote

-----------------------------------------------------------------------------
(* Types.  A lemma for each group of actions that changes the same state.  *)

LEMMA MissingTypes ==
  ASSUME PatternTypes, NEW missing \in BOOLEAN, MissingBecomes(missing),
         UNCHANGED <<pattern, cache, cacheCurrent, instCurrent>>
  PROVE  PatternTypes'
<1>1. instance \in Pattern
  BY DEF PatternTypes
<1>2. instance' \in Pattern
  BY <1>1 DEF MissingBecomes, Pattern
<1>3. QED
  BY <1>2 DEF PatternTypes

LEMMA FaultTypes ==
  ASSUME StepTypes, Fault \/ UNCHANGED faults
  PROVE  faults' \in 0..MaxFaults
  BY BoundsAreNat DEF StepTypes, Fault

LEMMA EditTypes ==
  ASSUME StepTypes, Edit
  PROVE  edits' \in 0..MaxEdits
  BY BoundsAreNat DEF StepTypes, Edit

(* StepTypes where neither Gitea nor the edits change.                     *)
LEMMA GoesOn ==
  ASSUME StepTypes, pc' \in Calls, Fault \/ UNCHANGED faults, UNCHANGED <<gitea, edits>>
  PROVE  StepTypes'
  BY FaultTypes DEF StepTypes

LEMMA GetTypes == TypeOK /\ Get => TypeOK'
<1> SUFFICES ASSUME TypeOK, Get
             PROVE  TypeOK'
  OBVIOUS
<1>1. RepositoryTypes'
  BY DEF TypeOK, Get, RepositoryTypes
<1>2. PatternTypes'
  BY DEF TypeOK, Get, PatternTypes
<1>3. StepTypes'
  BY GoesOn DEF TypeOK, Get, Calls
<1>4. QED
  BY <1>1, <1>2, <1>3 DEF TypeOK

LEMMA ApplyDefaultsTypes == TypeOK /\ ApplyDefaults => TypeOK'
<1> SUFFICES ASSUME TypeOK, ApplyDefaults
             PROVE  TypeOK'
  OBVIOUS
<1>0. PatternTypes /\ RepositoryTypes /\ StepTypes
  BY DEF TypeOK
<1>1. RepositoryTypes'
  <2>1. disk' \in [Paths -> Clone]
    BY <1>0, NoCloneIsAClone DEF ApplyDefaults, RepositoryTypes
  <2>2. QED
    BY <1>0, <2>1 DEF ApplyDefaults, RepositoryTypes
<1>2. PatternTypes'
  <2>1. instance' \in Pattern
    <3>1. CASE instance' = instance
      BY <1>0, <3>1 DEF PatternTypes
    <3>2. CASE instance' = [instance EXCEPT !.path = LocalGitPath(instance.url),
                              !.revision = IF @ = "" THEN "HEAD" ELSE @]
      <4>1. LocalGitPath(instance.url) \in Paths
        BY <1>0, PathsOfUrls, InstanceFields
      <4>2. instance \in Pattern
        BY <1>0 DEF PatternTypes
      <4>3. QED
        BY <3>2, <4>1, <4>2 DEF Pattern
    <3>3. QED
      BY <3>1, <3>2 DEF ApplyDefaults
  <2>2. QED
    BY <1>0, <2>1 DEF ApplyDefaults, PatternTypes
<1>3. StepTypes'
  BY <1>0, GoesOn DEF ApplyDefaults, Calls, Ends
<1>4. QED
  BY <1>1, <1>2, <1>3 DEF TypeOK

LEMMA GiteaTypes == TypeOK /\ (GiteaSecret \/ GiteaApplication) => TypeOK'
<1> SUFFICES ASSUME TypeOK, GiteaSecret \/ GiteaApplication
             PROVE  TypeOK'
  OBVIOUS
<1>0. PatternTypes /\ RepositoryTypes /\ StepTypes
  BY DEF TypeOK
<1>1. PatternTypes'
  BY <1>0 DEF GiteaSecret, GiteaApplication, PatternTypes, copyVars
<1>2. RepositoryTypes'
  <2>1. disk' \in [Paths -> Clone]
    BY <1>0, NoCloneIsAClone DEF GiteaSecret, GiteaApplication, RepositoryTypes
  <2>2. QED
    BY <1>0, <2>1 DEF GiteaSecret, GiteaApplication, RepositoryTypes
<1>3. StepTypes'
  <2>1. pc' \in Calls /\ edits' = edits /\ (Fault \/ UNCHANGED faults)
    BY DEF GiteaSecret, GiteaApplication, Ends, Calls
  <2>2. gitea' = gitea \/ gitea' = [gitea EXCEPT !.secret = Kept(@)]
        \/ gitea' = [gitea EXCEPT !.app = "ours"]
    BY DEF GiteaSecret, GiteaApplication
  <2>3. gitea' \in [secret: {"none", "first", "second"},
                    app: {"absent", "ours", "outdated", "foreign"},
                    runsWith: {"none", "first", "second"}]
    BY <1>0, <2>2 DEF StepTypes, Kept
  <2>4. QED
    BY <1>0, <2>1, <2>3, FaultTypes DEF StepTypes
<1>4. QED
  BY <1>1, <1>2, <1>3 DEF TypeOK

LEMMA MigrateTypes == TypeOK /\ pc = "migrate" /\ instance.origin # NoUrl /\ Migrate => TypeOK'
<1> SUFFICES ASSUME TypeOK, instance.origin # NoUrl, Migrate
             PROVE  TypeOK'
  OBVIOUS
<1>0. PatternTypes /\ RepositoryTypes /\ StepTypes
  BY DEF TypeOK
<1>1. PatternTypes'
  BY <1>0 DEF Migrate, PatternTypes, copyVars
<1>2. RepositoryTypes'
  <2>1. remotes' = remotes \/ remotes' = Forked
    BY DEF Migrate
  <2>2. instance.origin \in AllUrls
    BY <1>0, InstanceFields, SourceAssumption DEF AllUrls
  <2>3. Forked \in [AllUrls -> Remote]
    BY <1>0, <2>2 DEF Forked, RepositoryTypes
  <2>4. QED
    BY <1>0, <2>1, <2>3 DEF Migrate, RepositoryTypes
<1>3. StepTypes'
  BY <1>0, GoesOn DEF Migrate, Ends, Calls
<1>4. QED
  BY <1>1, <1>2, <1>3 DEF TypeOK

LEMMA RetargetTypes == TypeOK /\ Retarget => TypeOK'
<1> SUFFICES ASSUME TypeOK, Retarget
             PROVE  TypeOK'
  OBVIOUS
<1>0. PatternTypes /\ RepositoryTypes /\ StepTypes
  BY DEF TypeOK
<1>1. RepositoryTypes'
  BY <1>0 DEF Retarget, RepositoryTypes
<1>2. PatternTypes'
  <2>1. CASE UNCHANGED <<pattern, cacheCurrent, instance, instCurrent>>
    BY <1>0, <2>1 DEF Retarget, PatternTypes
  <2>2. CASE /\ pattern' = [pattern EXCEPT !.url = GiteaUrl, !.revision = instance.revision]
             /\ cacheCurrent' = (cacheCurrent /\ pattern' = pattern)
             /\ instance' = pattern' /\ instCurrent' = TRUE
    <3>1. pattern \in Pattern /\ instance.revision \in Revisions \union {"HEAD"}
      BY <1>0, InstanceFields DEF PatternTypes
    <3>2. pattern' \in Pattern
      BY <2>2, <3>1, UrlsApart DEF Pattern
    <3>3. cacheCurrent' \in BOOLEAN
      BY <2>2
    <3>4. QED
      BY <1>0, <2>2, <3>2, <3>3 DEF Retarget, PatternTypes
  <2>3. QED
    BY <2>1, <2>2 DEF Retarget
<1>3. StepTypes'
  BY <1>0, GoesOn DEF Retarget, Ends, Calls
<1>4. QED
  BY <1>1, <1>2, <1>3 DEF TypeOK

(* The calls between getLocalGit and preValidation change the clone at the *)
(* local path, and Missing.                                                *)
LEMMA CloneTypes ==
  ASSUME TypeOK, NEW clone \in Clone,
         disk' = disk \/ disk' = [disk EXCEPT ![instance.path] = clone],
         UNCHANGED <<remotes, app>>, seen' \in Remote
  PROVE  RepositoryTypes'
<1>1. disk \in [Paths -> Clone]
  BY DEF TypeOK, RepositoryTypes
<1>2. disk' \in [Paths -> Clone]
  BY <1>1
<1>3. QED
  BY <1>2 DEF TypeOK, RepositoryTypes

LEMMA LocalGitTypes ==
  ASSUME TypeOK, UNCHANGED <<pattern, cache, cacheCurrent, instCurrent>>,
         UNCHANGED instance \/ EndsNotMissing
  PROVE  PatternTypes'
<1>1. CASE UNCHANGED instance
  BY <1>1 DEF TypeOK, PatternTypes
<1>2. CASE EndsNotMissing
  BY <1>2, MissingTypes DEF TypeOK, EndsNotMissing
<1>3. QED
  BY <1>1, <1>2

LEMMA GetLocalGitTypes == TypeOK /\ GetLocalGit => TypeOK'
<1> SUFFICES ASSUME TypeOK, GetLocalGit
             PROVE  TypeOK'
  OBVIOUS
<1>0. PatternTypes /\ RepositoryTypes /\ StepTypes
  BY DEF TypeOK
<1>1. RepositoryTypes'
  <2>1. [NoClone EXCEPT !.files = Local.files] \in Clone
    BY <1>0, LocalIsAClone, NoCloneIsAClone DEF Clone
  <2>2. disk' = disk \/ disk' = [disk EXCEPT ![instance.path] = [NoClone EXCEPT !.files = Local.files]]
    BY DEF GetLocalGit
  <2>3. UNCHANGED <<remotes, app>> /\ seen' \in Remote
    BY <1>0 DEF GetLocalGit, RepositoryTypes
  <2>4. QED
    BY <2>1, <2>2, <2>3, CloneTypes
<1>2. PatternTypes'
  BY LocalGitTypes DEF GetLocalGit, EndsWithout, storedVars
<1>3. StepTypes'
  BY <1>0, GoesOn DEF GetLocalGit, EndsWithout, EndsNotMissing, Ends, Calls
<1>4. QED
  BY <1>1, <1>2, <1>3 DEF TypeOK

LEMMA CloneRepoTypes == TypeOK /\ MainStands /\ CloneRepo => TypeOK'
<1> SUFFICES ASSUME TypeOK, MainStands, CloneRepo
             PROVE  TypeOK'
  OBVIOUS
<1>0. PatternTypes /\ RepositoryTypes /\ StepTypes
  BY DEF TypeOK
<1>1. RepositoryTypes'
  <2>0. Local \in Clone /\ NoClone \in Clone
    BY <1>0, LocalIsAClone, NoCloneIsAClone
  <2>1. Leftover \in Clone
    BY <1>0, <2>0, InstanceFields DEF Leftover, Clone
  <2>2. CASE disk' = [disk EXCEPT ![instance.path] = Cloned] /\ Reachable(instance.url)
    <3>1. remotes[instance.url] \in Remote /\ instance.url \in AllUrls
      BY <1>0, <2>2 DEF Reachable, RepositoryTypes
    <3>2. remotes[instance.url].branches[Main] \in Commit
      BY <2>2, <3>1, SourceAssumption DEF MainStands, Reachable, Remote, Refs
    <3>3. Cloned \in Clone
      BY <2>0, <3>1, <3>2 DEF Cloned, Clone, Remote
    <3>4. QED
      BY <1>0, <2>2, <3>3, CloneTypes DEF CloneRepo, RepositoryTypes
  <2>3. CASE disk' = disk \/ disk' = [disk EXCEPT ![instance.path] = Leftover]
    BY <1>0, <2>1, <2>3, CloneTypes DEF CloneRepo, RepositoryTypes
  <2>4. QED
    BY <2>2, <2>3 DEF CloneRepo
<1>2. PatternTypes'
  BY LocalGitTypes DEF CloneRepo, EndsWithout, storedVars
<1>3. StepTypes'
  BY <1>0, GoesOn DEF CloneRepo, EndsWithout, EndsNotMissing, Ends, Calls
<1>4. QED
  BY <1>1, <1>2, <1>3 DEF TypeOK

LEMMA FetchTypes == TypeOK /\ Working /\ Fetch => TypeOK'
<1> SUFFICES ASSUME TypeOK, Working, Fetch
             PROVE  TypeOK'
  OBVIOUS
<1>0. PatternTypes /\ RepositoryTypes /\ StepTypes
  BY DEF TypeOK
<1>1. RepositoryTypes'
  <2>0. instance.path # "" /\ disk[instance.path] \in Clone /\ Local = disk[instance.path]
    BY <1>0, LocalIsAClone DEF Working, Fetch, Local
  <2>1. CASE UNCHANGED <<disk, seen>>
    BY <1>0, <2>1 DEF Fetch, RepositoryTypes
  <2>2. ASSUME NEW remote, Reachable(Local.url), remote = remotes[Local.url], seen' = remote,
               disk' = [disk EXCEPT ![instance.path].tracking = Fetched(@, remote.branches),
                                    ![instance.path].tags = Fetched(@, remote.tags)]
        PROVE  RepositoryTypes'
    <3>1. remote \in Remote
      BY <1>0, <2>2 DEF Reachable, RepositoryTypes
    <3>2. /\ Fetched(Local.tracking, remote.branches) \in Refs
          /\ Fetched(Local.tags, remote.tags) \in Refs
      BY <2>0, <3>1, FetchedRefs DEF Clone, Remote
    <3>3. DEFINE clone == [Local EXCEPT !.tracking = Fetched(@, remote.branches),
                                        !.tags = Fetched(@, remote.tags)]
    <3>4. clone \in Clone
      BY <2>0, <3>2 DEF Clone
    <3>5. disk' = [disk EXCEPT ![instance.path] = clone]
      BY <1>0, <2>0, <2>2, <3>2 DEF Clone, RepositoryTypes
    <3>6. QED
      BY <2>2, <3>1, <3>4, <3>5, CloneTypes DEF Fetch
  <2>3. QED
    BY <2>1, <2>2 DEF Fetch
<1>2. PatternTypes'
  BY LocalGitTypes DEF Fetch, EndsWithout, storedVars
<1>3. StepTypes'
  BY <1>0, GoesOn DEF Fetch, EndsWithout, EndsNotMissing, Ends, Calls
<1>4. QED
  BY <1>1, <1>2, <1>3 DEF TypeOK

(* A revision that is looked up is HEAD or a name.                         *)
LEMMA CommitOfTarget ==
  ASSUME TypeOK, Copies, pc = "checkout"
  PROVE  /\ instance.revision = "HEAD" \/ instance.revision \in Names
         /\ GetCommitFromTarget(Local, instance.revision) \in Commit \union {NoCommit}
<1>1. instance.revision = "HEAD" \/ instance.revision \in Names
  BY InstanceFields, SourceAssumption DEF TypeOK, Copies
<1>2. Local \in Clone
  BY LocalIsAClone DEF TypeOK
<1>3. QED
  BY <1>1, <1>2 DEF GetCommitFromTarget, Clone, Refs

LEMMA CheckoutRevisionTypes == TypeOK /\ Copies /\ Working /\ CheckoutRevision => TypeOK'
<1> SUFFICES ASSUME TypeOK, Copies, Working, CheckoutRevision
             PROVE  TypeOK'
  OBVIOUS
<1>0. PatternTypes /\ RepositoryTypes /\ StepTypes
  BY DEF TypeOK
<1>1. RepositoryTypes'
  <2>0. instance.path # "" /\ disk[instance.path] \in Clone
    BY <1>0, LocalIsAClone DEF Working, CheckoutRevision, Local
  <2>1. CASE UNCHANGED disk
    BY <1>0, <2>1 DEF CheckoutRevision, RepositoryTypes
  <2>2. ASSUME NEW commit \in Commit,
               disk' = [disk EXCEPT ![instance.path].head = commit,
                                    ![instance.path].files = {commit}]
        PROVE  RepositoryTypes'
    <3>1. DEFINE clone == [disk[instance.path] EXCEPT !.head = commit, !.files = {commit}]
    <3>2. clone \in Clone
      BY <2>0 DEF Clone
    <3>3. disk' = [disk EXCEPT ![instance.path] = clone]
      BY <1>0, <2>0, <2>2 DEF Clone, RepositoryTypes
    <3>4. QED
      BY <1>0, <3>2, <3>3, CloneTypes DEF CheckoutRevision, RepositoryTypes
  <2>3. GetCommitFromTarget(Local, instance.revision) \in Commit \union {NoCommit}
    BY CommitOfTarget DEF CheckoutRevision
  <2>4. QED
    BY <2>1, <2>2, <2>3 DEF CheckoutRevision
<1>2. PatternTypes'
  BY LocalGitTypes DEF CheckoutRevision, EndsWithout, storedVars
<1>3. StepTypes'
  BY <1>0, GoesOn DEF CheckoutRevision, EndsWithout, EndsNotMissing, Ends, Calls
<1>4. QED
  BY <1>1, <1>2, <1>3 DEF TypeOK

LEMMA PreValidationTypes == TypeOK /\ PreValidation => TypeOK'
<1> SUFFICES ASSUME TypeOK, PreValidation
             PROVE  TypeOK'
  OBVIOUS
<1>0. PatternTypes /\ RepositoryTypes /\ StepTypes
  BY DEF TypeOK
<1>1. RepositoryTypes'
  BY <1>0 DEF PreValidation, RepositoryTypes
<1>2. PatternTypes'
  <2>1. (~ValuesFileFound) \in BOOLEAN
    BY DEF ValuesFileFound
  <2>2. QED
    BY <1>0, <2>1, MissingTypes DEF PreValidation, storedVars
<1>3. StepTypes'
  BY <1>0, GoesOn DEF PreValidation, Calls
<1>4. QED
  BY <1>1, <1>2, <1>3 DEF TypeOK

LEMMA ApplicationTypes == TypeOK /\ Copies /\ Working /\ Application => TypeOK'
<1> SUFFICES ASSUME TypeOK, Copies, Working, Application
             PROVE  TypeOK'
  OBVIOUS
<1>0. PatternTypes /\ RepositoryTypes /\ StepTypes
  BY DEF TypeOK
<1>1. RepositoryTypes'
  <2>1. Target \in Made
    <3>1. instance.url \in AllUrls
      BY <1>0, InstanceFields DEF Working, Application
    <3>2. instance.revision \in Names \union {"HEAD"}
      BY <1>0, InstanceFields, SourceAssumption DEF Copies, Application
    <3>3. Local.files \in SUBSET Commit
      BY <1>0, LocalIsAClone DEF Clone
    <3>4. QED
      BY <3>1, <3>2, <3>3 DEF Target, Made
  <2>2. app' = app \/ app' = Target
    BY DEF Application
  <2>3. disk' = disk \/ disk' = DropLocalGitPaths
    BY DEF Application
  <2>4. QED
    BY <1>0, <2>1, <2>2, <2>3, NoCloneIsAClone DEF Application, RepositoryTypes
<1>2. PatternTypes'
  BY <1>0 DEF Application, PatternTypes, storedVars
<1>3. StepTypes'
  BY <1>0, GoesOn DEF Application, Ends, Calls
<1>4. QED
  BY <1>1, <1>2, <1>3 DEF TypeOK

(* The status is written, or not; the copy is dropped.                     *)
LEMMA ReturnTypes ==
  ASSUME TypeOK, Returns, Writes("reconcile complete") \/ Writes("other") \/ Keeps,
         Fault \/ UNCHANGED faults, UNCHANGED <<remotes, cache, gitea, disk, app, edits>>
  PROVE  TypeOK'
<1>0. PatternTypes /\ RepositoryTypes /\ StepTypes
  BY DEF TypeOK
<1>1. RepositoryTypes'
  BY <1>0, NoRemoteIsARemote DEF Returns, RepositoryTypes
<1>2. PatternTypes'
  <2>1. ASSUME NEW step \in {"other", "reconcile complete"}, Writes(step)
        PROVE  pattern' \in Pattern /\ cacheCurrent' \in BOOLEAN
    <3>1. pattern \in Pattern
      BY <1>0 DEF PatternTypes
    <3>2. QED
      BY <1>0, <2>1, <3>1, InstanceFields DEF Writes, Pattern
  <2>2. pattern' \in Pattern /\ cacheCurrent' \in BOOLEAN
    BY <1>0, <2>1 DEF Keeps, PatternTypes
  <2>3. QED
    BY <1>0, <2>2, NoPatternIsAPattern DEF Returns, PatternTypes
<1>3. StepTypes'
  BY <1>0, GoesOn DEF Returns, Calls
<1>4. QED
  BY <1>1, <1>2, <1>3 DEF TypeOK

LEMMA CompleteTypes == TypeOK /\ (Complete \/ ActionPerformed) => TypeOK'
  BY ReturnTypes DEF Complete, ActionPerformed

LEMMA CrashTypes == TypeOK /\ Crash => TypeOK'
<1> SUFFICES ASSUME TypeOK, Crash
             PROVE  TypeOK'
  OBVIOUS
<1>0. PatternTypes /\ RepositoryTypes /\ StepTypes
  BY DEF TypeOK
<1>1. RepositoryTypes'
  BY <1>0, NoRemoteIsARemote, NoCloneIsAClone DEF Crash, Returns, RepositoryTypes
<1>2. PatternTypes'
  BY <1>0, NoPatternIsAPattern DEF Crash, Returns, PatternTypes
<1>3. StepTypes'
  BY <1>0, GoesOn DEF Crash, Returns, Calls
<1>4. QED
  BY <1>1, <1>2, <1>3 DEF TypeOK

LEMMA UserEditsTypes == TypeOK /\ UserEdits => TypeOK'
<1> SUFFICES ASSUME TypeOK, UserEdits
             PROVE  TypeOK'
  OBVIOUS
<1>0. PatternTypes /\ RepositoryTypes /\ StepTypes
  BY DEF TypeOK
<1>1. RepositoryTypes'
  BY <1>0 DEF UserEdits, operatorVars, RepositoryTypes
<1>2. PatternTypes'
  <2>1. pattern \in Pattern
    BY <1>0 DEF PatternTypes
  <2>2. pattern' \in Pattern
    <3>1. CASE \E url \in Urls : pattern' = [pattern EXCEPT !.url = url]
      BY <2>1, <3>1, UrlsApart DEF Pattern
    <3>2. CASE \E origin \in Origins : pattern' = [pattern EXCEPT !.origin = origin]
      BY <2>1, <3>2 DEF Pattern
    <3>3. CASE \E revision \in Revisions : pattern' = [pattern EXCEPT !.revision = revision]
      BY <2>1, <3>3 DEF Pattern
    <3>4. QED
      BY <3>1, <3>2, <3>3 DEF UserEdits
  <2>3. QED
    BY <1>0, <2>2 DEF UserEdits, operatorVars, PatternTypes
<1>3. StepTypes'
  BY <1>0, EditTypes DEF UserEdits, operatorVars, StepTypes
<1>4. QED
  BY <1>1, <1>2, <1>3 DEF TypeOK

LEMMA SyncTypes == TypeOK /\ Sync => TypeOK'
<1> SUFFICES ASSUME TypeOK, Sync
             PROVE  TypeOK'
  OBVIOUS
<1>0. PatternTypes /\ RepositoryTypes /\ StepTypes
  BY DEF TypeOK
<1>1. RepositoryTypes'
  BY <1>0 DEF Sync, operatorVars, RepositoryTypes
<1>2. PatternTypes'
  BY <1>0 DEF Sync, operatorVars, PatternTypes
<1>3. StepTypes'
  BY <1>0 DEF Sync, operatorVars, StepTypes
<1>4. QED
  BY <1>1, <1>2, <1>3 DEF TypeOK

(* What changes in a repository is a branch or a tag.                      *)
LEMMA RefChanges ==
  ASSUME RepositoryTypes, NEW url \in AllUrls, NEW name \in Names, NEW c \in Commit \union {NoCommit},
         \/ remotes' = [remotes EXCEPT ![url].branches[name] = c]
         \/ remotes' = [remotes EXCEPT ![url].tags[name] = c]
  PROVE  remotes' \in [AllUrls -> Remote]
<1>1. remotes \in [AllUrls -> Remote] /\ remotes[url] \in Remote
  BY DEF RepositoryTypes
<1>2. /\ [remotes[url].branches EXCEPT ![name] = c] \in Refs
      /\ [remotes[url].tags EXCEPT ![name] = c] \in Refs
  BY <1>1 DEF Remote, Refs
<1>3. /\ [remotes[url] EXCEPT !.branches = [@ EXCEPT ![name] = c]] \in Remote
      /\ [remotes[url] EXCEPT !.tags = [@ EXCEPT ![name] = c]] \in Remote
  BY <1>1, <1>2 DEF Remote
<1>4. QED
  BY <1>1, <1>3

LEMMA TipTypes ==
  ASSUME RepositoryTypes, NEW url \in AllUrls, NEW name \in Names
  PROVE  Tip(url, name) \in Commit \union {NoCommit}
<1>1. remotes[url] \in Remote
  BY DEF RepositoryTypes
<1>2. QED
  BY <1>1 DEF Tip, Remote, Refs

(* The three ways in which a repository changes.                           *)
LEMMA RemoteSteps ==
  ASSUME TypeOK, RemoteChanges
  PROVE  \E url \in AllUrls, name \in Names, c \in Commit \union {NoCommit} :
           /\ Exists(url)
           /\ \/ /\ remotes' = [remotes EXCEPT ![url].branches[name] = c]
                 /\ \/ c \in Commit /\ c.repo = url
                    \/ c = NoCommit /\ name # Main
              \/ remotes' = [remotes EXCEPT ![url].tags[name] = c] /\ c = Tip(url, Main)
<1>1. PICK url \in Active, name \in Names :
        Exists(url) /\ (Push(url, name) \/ TagMain(url, name) \/ DeleteBranch(url, name))
  BY DEF RemoteChanges
<1>2. url \in AllUrls
  BY SourceAssumption DEF AllUrls
<1>3. CASE Push(url, name)
  <2>1. PICK n \in 1..MaxCommits, values \in BOOLEAN :
          remotes' = [remotes EXCEPT ![url].branches[name] =
                       [repo |-> url, n |-> n, values |-> values]]
    BY <1>3 DEF Push
  <2>2. [repo |-> url, n |-> n, values |-> values] \in Commit
    BY <1>2 DEF Commit
  <2>3. QED
    BY <1>1, <1>2, <2>1, <2>2
<1>4. CASE TagMain(url, name)
  BY <1>1, <1>2, <1>4, TipTypes, SourceAssumption DEF TagMain, TypeOK
<1>5. CASE DeleteBranch(url, name)
  BY <1>1, <1>2, <1>5 DEF DeleteBranch
<1>6. QED
  BY <1>1, <1>3, <1>4, <1>5

LEMMA RemoteChangesTypes == TypeOK /\ RemoteChanges => TypeOK'
<1> SUFFICES ASSUME TypeOK, RemoteChanges
             PROVE  TypeOK'
  OBVIOUS
<1>0. PatternTypes /\ RepositoryTypes /\ StepTypes
  BY DEF TypeOK
<1>1. remotes' \in [AllUrls -> Remote]
  BY <1>0, RemoteSteps, RefChanges
<1>2. RepositoryTypes'
  BY <1>0, <1>1 DEF RemoteChanges, operatorVars, RepositoryTypes
<1>3. PatternTypes'
  BY <1>0 DEF RemoteChanges, operatorVars, PatternTypes
<1>4. StepTypes'
  BY <1>0, EditTypes DEF RemoteChanges, operatorVars, StepTypes
<1>5. QED
  BY <1>2, <1>3, <1>4 DEF TypeOK

LEMMA GiteaChangesTypes == TypeOK /\ (GiteaStarts \/ GiteaApplicationChanges) => TypeOK'
<1> SUFFICES ASSUME TypeOK, GiteaStarts \/ GiteaApplicationChanges
             PROVE  TypeOK'
  OBVIOUS
<1>0. PatternTypes /\ RepositoryTypes /\ StepTypes
  BY DEF TypeOK
<1>1. RepositoryTypes'
  BY <1>0 DEF GiteaStarts, GiteaApplicationChanges, operatorVars, RepositoryTypes
<1>2. PatternTypes'
  BY <1>0 DEF GiteaStarts, GiteaApplicationChanges, storedVars, operatorVars, PatternTypes
<1>3. StepTypes'
  <2>1. gitea' = [gitea EXCEPT !.runsWith = gitea.secret]
        \/ \E state \in {"outdated", "foreign"} : gitea' = [gitea EXCEPT !.app = state]
    BY DEF GiteaStarts, GiteaApplicationChanges
  <2>2. gitea' \in [secret: {"none", "first", "second"},
                    app: {"absent", "ours", "outdated", "foreign"},
                    runsWith: {"none", "first", "second"}]
    BY <1>0, <2>1 DEF StepTypes
  <2>3. edits' \in 0..MaxEdits
    BY <1>0, EditTypes DEF GiteaStarts, GiteaApplicationChanges, StepTypes
  <2>4. QED
    BY <1>0, <2>2, <2>3 DEF GiteaStarts, GiteaApplicationChanges, operatorVars, StepTypes
<1>4. QED
  BY <1>1, <1>2, <1>3 DEF TypeOK

(* Every step, of any of them.                                             *)
LEMMA TypesStep == SourceInv /\ [Next]_vars => TypeOK'
<1> SUFFICES ASSUME SourceInv, [Next]_vars
             PROVE  TypeOK'
  OBVIOUS
<1>0. TypeOK /\ Copies /\ MainStands /\ Working
  BY DEF SourceInv
<1>1. CASE Get \/ ApplyDefaults \/ GiteaSecret \/ GiteaApplication \/ Migrate \/ Retarget
  <2>1. Migrate => pc = "migrate" /\ instance.origin # NoUrl
    BY <1>0 DEF Copies, Migrate
  <2>2. QED
    BY <1>0, <1>1, <2>1, GetTypes, ApplyDefaultsTypes, GiteaTypes, MigrateTypes, RetargetTypes
<1>2. CASE GetLocalGit \/ CloneRepo \/ Fetch \/ CheckoutRevision \/ PreValidation
  BY <1>0, <1>2, GetLocalGitTypes, CloneRepoTypes, FetchTypes, CheckoutRevisionTypes,
     PreValidationTypes
<1>3. CASE Application \/ Complete \/ ActionPerformed \/ Crash
  BY <1>0, <1>3, ApplicationTypes, CompleteTypes, CrashTypes
<1>4. CASE UserEdits \/ Sync \/ RemoteChanges \/ GiteaStarts \/ GiteaApplicationChanges
  BY <1>0, <1>4, UserEditsTypes, SyncTypes, RemoteChangesTypes, GiteaChangesTypes
<1>5. CASE UNCHANGED vars
  BY <1>0, <1>5 DEF vars, copyVars, TypeOK, RepositoryTypes, PatternTypes, StepTypes
<1>6. QED
  BY <1>1, <1>2, <1>3, <1>4, <1>5 DEF Next, Reconcile

-----------------------------------------------------------------------------
(* The copies.                                                             *)

LEMMA CopiesOfPatterns ==
  ASSUME TypeOK
  PROVE  pattern \in Pattern /\ instance \in Pattern /\ cache \in Pattern
  BY DEF TypeOK, PatternTypes

(* Steps that leave the stored Pattern, the cache and the copy's settings  *)
(* as they are, and go on to no call of Gitea.                             *)
LEMMA CopiesKept ==
  ASSUME TypeOK, Copies, UNCHANGED storedVars,
         UNCHANGED instance \/ MissingBecomes(FALSE) \/ MissingBecomes(TRUE),
         \/ UNCHANGED pc
         \/ pc' \in {"idle", "complete", "actionPerformed"}
         \/ /\ pc \in {"getLocalGit", "clone", "fetch", "checkout", "preValidation"}
            /\ pc' \in {"clone", "fetch", "checkout", "preValidation", "application"}
  PROVE  Copies'
<1>1. /\ instance'.origin = instance.origin
      /\ instance'.revision = instance.revision
  BY CopiesOfPatterns DEF MissingBecomes, Pattern
<1>2. QED
  BY <1>1 DEF Copies, storedVars

LEMMA CopiesStep == SourceInv /\ [Next]_vars => Copies'
<1> SUFFICES ASSUME SourceInv, [Next]_vars
             PROVE  Copies'
  OBVIOUS
<1>0. TypeOK /\ Copies
  BY DEF SourceInv
<1>a. pattern \in Pattern /\ instance \in Pattern /\ cache \in Pattern
  BY <1>0, CopiesOfPatterns
<1>1. CASE Get
  BY <1>0, <1>1 DEF Get, Copies
<1>2. CASE ApplyDefaults
  <2>1. CASE Ends /\ UNCHANGED instance
    BY <1>0, <1>2, <2>1 DEF ApplyDefaults, Ends, Copies
  <2>2. CASE /\ instance' = [instance EXCEPT !.path = LocalGitPath(instance.url),
                               !.revision = IF @ = "" THEN "HEAD" ELSE @]
             /\ Ends \/ pc' = IF WithOrigin THEN "giteaSecret" ELSE "getLocalGit"
    <3>1. /\ instance'.origin = instance.origin
          /\ instance'.revision = IF instance.revision = "" THEN "HEAD" ELSE instance.revision
      BY <1>a, <2>2 DEF Pattern
    <3>2. UNCHANGED <<pattern, cache, cacheCurrent, instCurrent>>
      BY <1>2 DEF ApplyDefaults
    <3>3. cacheCurrent' => cache' = pattern'
      BY <1>0, <3>2 DEF Copies
    <3>4. instCurrent' => /\ instance'.origin = pattern'.origin
                          /\ \/ instance'.revision = pattern'.revision
                             \/ pattern'.revision = "" /\ instance'.revision = "HEAD"
      BY <1>0, <3>1, <3>2 DEF Copies
    <3>5. instance'.revision # ""
      BY <3>1
    <3>6. pc' = "actionPerformed" \/ pc' = "getLocalGit" \/ (pc' = "giteaSecret" /\ instance.origin # NoUrl)
      BY <2>2 DEF Ends, WithOrigin
    <3>7. QED
      BY <3>1, <3>3, <3>4, <3>5, <3>6 DEF Copies
  <2>3. QED
    BY <1>2, <2>1, <2>2 DEF ApplyDefaults
<1>3. CASE GiteaSecret \/ GiteaApplication \/ Migrate
  <2>1. UNCHANGED <<pattern, cache, cacheCurrent, instance, instCurrent>>
    BY <1>3 DEF GiteaSecret, GiteaApplication, Migrate, copyVars
  <2>2. /\ pc \in {"giteaSecret", "giteaApplication", "migrate"}
        /\ pc' \in {"giteaApplication", "migrate", "retarget", "actionPerformed"}
    BY <1>3 DEF GiteaSecret, GiteaApplication, Migrate, Ends
  <2>3. instance'.origin # NoUrl /\ instance'.revision # ""
    BY <1>0, <2>1, <2>2 DEF Copies
  <2>4. QED
    BY <1>0, <2>1, <2>2, <2>3 DEF Copies
<1>4. CASE Retarget
  <2>1. CASE UNCHANGED <<pattern, cacheCurrent, instance, instCurrent>> /\ Ends
    BY <1>0, <1>4, <2>1 DEF Retarget, Ends, Copies
  <2>2. CASE /\ pattern' = [pattern EXCEPT !.url = GiteaUrl, !.revision = instance.revision]
             /\ cacheCurrent' = (cacheCurrent /\ pattern' = pattern)
             /\ instance' = pattern' /\ instCurrent' = TRUE
             /\ pc' = "getLocalGit"
    <3>1. pattern'.revision = instance.revision
      BY <1>a, <2>2 DEF Pattern
    <3>2. instance.revision # "" /\ cache' = cache
      BY <1>0, <1>4 DEF Copies, Retarget
    <3>3. QED
      BY <1>0, <2>2, <3>1, <3>2 DEF Copies
  <2>3. QED
    BY <1>4, <2>1, <2>2 DEF Retarget
<1>5. CASE GetLocalGit \/ CloneRepo \/ Fetch \/ CheckoutRevision \/ Application
  BY <1>0, <1>5, CopiesKept
     DEF GetLocalGit, CloneRepo, Fetch, CheckoutRevision, Application, EndsWithout, EndsNotMissing, Ends
<1>6. CASE PreValidation
  BY <1>0, <1>6, CopiesKept DEF PreValidation, ValuesFileFound
<1>7. CASE Complete \/ ActionPerformed
  <2>1. pc' = "idle" /\ instCurrent' = FALSE /\ cache' = cache
    BY <1>7 DEF Complete, ActionPerformed, Returns
  <2>2. cacheCurrent' = FALSE \/ UNCHANGED <<pattern, cacheCurrent>>
    BY <1>7 DEF Complete, ActionPerformed, Writes, Keeps
  <2>3. cacheCurrent' => cache' = pattern'
    BY <1>0, <2>1, <2>2 DEF Copies
  <2>4. QED
    BY <2>1, <2>3 DEF Copies
<1>8. CASE Crash
  BY <1>8 DEF Crash, Returns, Copies
<1>9. CASE UserEdits
  BY <1>0, <1>9 DEF UserEdits, operatorVars, Copies
<1>10. CASE Sync
  BY <1>0, <1>10 DEF Sync, operatorVars, Copies
<1>11. CASE RemoteChanges \/ GiteaStarts \/ GiteaApplicationChanges
  <2>1. UNCHANGED <<pattern, cache, cacheCurrent, instance, instCurrent, pc>>
    BY <1>11 DEF RemoteChanges, GiteaStarts, GiteaApplicationChanges, storedVars, operatorVars
  <2>2. QED
    BY <1>0, <2>1 DEF Copies
<1>12. CASE UNCHANGED vars
  BY <1>0, <1>12 DEF vars, copyVars, Copies
<1>13. QED
  BY <1>1, <1>2, <1>3, <1>4, <1>5, <1>6, <1>7, <1>8, <1>9, <1>10, <1>11, <1>12 DEF Next, Reconcile

-----------------------------------------------------------------------------
(* The repositories.                                                       *)

LEMMA BelongsHere ==
  ASSUME NEW c \in Commit, NEW url \in AllUrls, c.repo = url
  PROVE  Belongs(c, url)
  BY DEF Belongs

LEMMA OwnRefsChange ==
  ASSUME NEW refs \in Refs, NEW url \in AllUrls, OwnRefs(refs, url), NEW name \in Names, NEW c,
         c # NoCommit => Belongs(c, url)
  PROVE  OwnRefs([refs EXCEPT ![name] = c], url)
<1>1. \A n \in Names : [refs EXCEPT ![name] = c][n] = IF n = name THEN c ELSE refs[n]
  BY DEF Refs
<1>2. QED
  BY <1>1 DEF OwnRefs

LEMMA RemotesStep == SourceInv /\ [Next]_vars => OwnRemotes' /\ MainStands'
<1> SUFFICES ASSUME SourceInv, [Next]_vars
             PROVE  OwnRemotes' /\ MainStands'
  OBVIOUS
<1>0. TypeOK /\ Copies /\ OwnRemotes /\ MainStands
  BY DEF SourceInv
<1>a. remotes \in [AllUrls -> Remote] /\ Main \in Names
  BY <1>0, SourceAssumption DEF TypeOK, RepositoryTypes
<1>1. CASE UNCHANGED remotes
  BY <1>0, <1>1 DEF OwnRemotes, MainStands, Exists, OwnRefs, Belongs
<1>2. CASE Migrate /\ remotes' = Forked
  <2>1. instance.origin \in Urls /\ instance.origin \in Origins /\ instance.origin # GiteaUrl
    BY <1>0, <1>2, InstanceFields, SourceAssumption DEF Migrate, Copies, TypeOK
  <2>2. CASE Exists(GiteaUrl)
    BY <1>0, <1>1, <1>2, <1>a, <2>2 DEF Forked
  <2>3. CASE ~Exists(GiteaUrl)
    <3>1. remotes' = [remotes EXCEPT ![GiteaUrl] = remotes[instance.origin]]
      BY <1>2, <2>3 DEF Forked
    <3>2. \A url \in AllUrls : remotes'[url] = IF url = GiteaUrl THEN remotes[instance.origin]
                                               ELSE remotes[url]
      BY <1>a, <3>1
    <3>3. MainStands'
      BY <1>0, <2>1, <3>2, UrlsApart DEF MainStands, Exists
    <3>4. \A c : Belongs(c, instance.origin) => Belongs(c, GiteaUrl)
      BY <2>1 DEF Belongs
    <3>5. OwnRemotes'
      BY <1>0, <2>1, <3>2, <3>4, UrlsApart DEF OwnRemotes, OwnRefs
    <3>6. QED
      BY <3>3, <3>5
  <2>4. QED
    BY <2>2, <2>3
<1>3. CASE RemoteChanges
  <2>1. PICK url \in AllUrls, name \in Names, c \in Commit \union {NoCommit} :
          /\ Exists(url)
          /\ \/ /\ remotes' = [remotes EXCEPT ![url].branches[name] = c]
                /\ \/ c \in Commit /\ c.repo = url
                   \/ c = NoCommit /\ name # Main
             \/ remotes' = [remotes EXCEPT ![url].tags[name] = c] /\ c = Tip(url, Main)
    BY <1>0, <1>3, RemoteSteps
  <2>a. remotes[url] \in Remote /\ remotes[url].branches \in Refs /\ remotes[url].tags \in Refs
    BY <1>a DEF Remote
  <2>2. c # NoCommit => Belongs(c, url)
    BY <1>0, <1>a, <2>1, BelongsHere DEF OwnRemotes, OwnRefs, Tip
  <2>3. CASE /\ remotes' = [remotes EXCEPT ![url].branches[name] = c]
             /\ c # NoCommit \/ name # Main
    <3>1. \A u \in AllUrls : u # url => remotes'[u] = remotes[u]
      BY <1>a, <2>3
    <3>2. remotes'[url].tags = remotes[url].tags
          /\ remotes'[url].branches = [remotes[url].branches EXCEPT ![name] = c]
      BY <1>a, <2>3, <2>a DEF Remote
    <3>3. \A n \in Names : remotes'[url].branches[n] = IF n = name THEN c
                                                       ELSE remotes[url].branches[n]
      BY <3>2, <2>a DEF Refs
    <3>4. MainStands'
      BY <1>0, <1>a, <2>1, <2>3, <3>1, <3>3 DEF MainStands, Exists
    <3>5. OwnRemotes'
      BY <1>0, <2>2, <2>a, <3>1, <3>2, OwnRefsChange DEF OwnRemotes
    <3>6. QED
      BY <3>4, <3>5
  <2>4. CASE remotes' = [remotes EXCEPT ![url].tags[name] = c]
    <3>1. \A u \in AllUrls : u # url => remotes'[u] = remotes[u]
      BY <1>a, <2>4
    <3>2. remotes'[url].branches = remotes[url].branches
          /\ remotes'[url].tags = [remotes[url].tags EXCEPT ![name] = c]
      BY <1>a, <2>4, <2>a DEF Remote
    <3>4. MainStands'
      BY <1>0, <1>a, <2>1, <3>1, <3>2 DEF MainStands, Exists
    <3>5. OwnRemotes'
      BY <1>0, <2>2, <2>a, <3>1, <3>2, OwnRefsChange DEF OwnRemotes
    <3>6. QED
      BY <3>4, <3>5
  <2>5. QED
    BY <2>1, <2>3, <2>4, NoCommitIsNone
<1>4. UNCHANGED remotes \/ (Migrate /\ remotes' = Forked) \/ RemoteChanges
  BY DEF Next, Reconcile, vars, Get, ApplyDefaults, GiteaSecret, GiteaApplication, Migrate, Retarget,
         GetLocalGit, CloneRepo, Fetch, CheckoutRevision, PreValidation, Application, Complete,
         ActionPerformed, Crash, UserEdits, Sync, GiteaStarts, GiteaApplicationChanges
<1>5. QED
  BY <1>1, <1>2, <1>3, <1>4

-----------------------------------------------------------------------------
(* The local clones.                                                       *)

LEMMA LocalPut ==
  ASSUME TypeOK, instance.path # "", NEW clone, disk' = [disk EXCEPT ![instance.path] = clone],
         instance'.path = instance.path
  PROVE  Local' = clone
<1>1. instance.path \in Paths /\ disk \in [Paths -> Clone]
  BY InstanceFields DEF TypeOK, RepositoryTypes
<1>2. QED
  BY <1>1 DEF Local

LEMMA LocalOwned ==
  ASSUME TypeOK, OwnClones
  PROVE  OwnClone(Local)
<1>1. instance.path = "" \/ instance.path \in Paths
  BY InstanceFields DEF TypeOK
<1>2. QED
  BY <1>1 DEF Local, OwnClones, OwnClone, NoClone

(* What the calls that change the clone make of it.                        *)
LEMMA FetchSteps ==
  ASSUME TypeOK, Working, Fetch
  PROVE  \/ EndsNotMissing /\ UNCHANGED <<disk, seen>>
         \/ /\ pc' = "checkout" /\ UNCHANGED instance /\ Reachable(Local.url)
            /\ seen' = remotes[Local.url]
            /\ disk' = [disk EXCEPT ![instance.path] =
                 [Local EXCEPT !.tracking = Fetched(Local.tracking, seen'.branches),
                               !.tags = Fetched(Local.tags, seen'.tags)]]
<1>1. instance.path # "" /\ Local = disk[instance.path] /\ Local \in Clone /\ disk \in [Paths -> Clone]
  BY LocalIsAClone DEF Working, Fetch, Local, TypeOK, RepositoryTypes
<1>2. CASE EndsWithout(Reachable(Local.url)) /\ UNCHANGED <<disk, seen>>
  BY <1>2 DEF EndsWithout
<1>3. CASE /\ Reachable(Local.url) /\ pc' = "checkout" /\ UNCHANGED instance
           /\ seen' = remotes[Local.url]
           /\ disk' = [disk EXCEPT ![instance.path].tracking = Fetched(@, seen'.branches),
                                   ![instance.path].tags = Fetched(@, seen'.tags)]
  <2>1. disk' = [disk EXCEPT ![instance.path] =
                  [Local EXCEPT !.tracking = Fetched(Local.tracking, seen'.branches),
                                !.tags = Fetched(Local.tags, seen'.tags)]]
    BY <1>1, <1>3 DEF Clone
  <2>2. QED
    BY <1>3, <2>1
<1>4. QED
  BY <1>2, <1>3 DEF Fetch

LEMMA CheckoutSteps ==
  ASSUME TypeOK, Copies, Working, CheckoutRevision
  PROVE  \/ EndsNotMissing /\ UNCHANGED disk
         \/ \E commit \in Commit :
              /\ commit = GetCommitFromTarget(Local, instance.revision)
              /\ pc' = "preValidation" /\ UNCHANGED instance
              /\ disk' = [disk EXCEPT ![instance.path] =
                            [Local EXCEPT !.head = commit, !.files = {commit}]]
<1>1. instance.path # "" /\ Local = disk[instance.path] /\ Local \in Clone /\ disk \in [Paths -> Clone]
  BY LocalIsAClone DEF Working, CheckoutRevision, Local, TypeOK, RepositoryTypes
<1>2. GetCommitFromTarget(Local, instance.revision) \in Commit \union {NoCommit}
  BY CommitOfTarget DEF CheckoutRevision
<1>3. CASE EndsNotMissing /\ UNCHANGED disk
  BY <1>3
<1>4. ASSUME NEW commit \in Commit, commit = GetCommitFromTarget(Local, instance.revision),
             pc' = "preValidation" /\ UNCHANGED instance,
             disk' = [disk EXCEPT ![instance.path].head = commit, ![instance.path].files = {commit}]
      PROVE  disk' = [disk EXCEPT ![instance.path] =
                            [Local EXCEPT !.head = commit, !.files = {commit}]]
  BY <1>1, <1>4 DEF Clone
<1>5. QED
  BY <1>2, <1>3, <1>4 DEF CheckoutRevision, EndsWithout

LEMMA ClonePut ==
  ASSUME TypeOK, OwnClones, NEW clone, OwnClone(clone),
         disk' = [disk EXCEPT ![instance.path] = clone]
  PROVE  OwnClones'
<1>1. \A p \in Paths : disk'[p] = IF p = instance.path THEN clone ELSE disk[p]
  BY DEF TypeOK, RepositoryTypes
<1>2. \A p \in Paths : OwnClone(disk'[p])
  BY <1>1 DEF OwnClones
<1>3. QED
  BY <1>2 DEF OwnClones, OwnClone, OwnRefs, Belongs

LEMMA CommitFromTargetOwned ==
  ASSUME TypeOK, Copies, OwnClones, pc = "checkout", Local.url # NoUrl,
         GetCommitFromTarget(Local, instance.revision) # NoCommit
  PROVE  Belongs(GetCommitFromTarget(Local, instance.revision), Local.url)
<1>1. OwnClone(Local)
  BY LocalOwned
<1>2. instance.revision = "HEAD" \/ instance.revision \in Names
  BY CommitOfTarget
<1>3. QED
  BY <1>1, <1>2 DEF OwnClone, OwnRefs, GetCommitFromTarget

LEMMA ClonesStep == SourceInv /\ [Next]_vars => OwnClones'
<1> SUFFICES ASSUME SourceInv, [Next]_vars
             PROVE  OwnClones'
  OBVIOUS
<1>0. TypeOK /\ Copies /\ OwnRemotes /\ OwnClones /\ Working
  BY DEF SourceInv
<1>a. Local \in Clone /\ OwnClone(Local)
  BY <1>0, LocalIsAClone, LocalOwned DEF TypeOK
<1>1. CASE UNCHANGED disk
  BY <1>0, <1>1 DEF OwnClones, OwnClone, OwnRefs, Belongs
<1>2. CASE disk' = DropLocalGitPaths
  BY <1>2 DEF DropLocalGitPaths, NoClone, OwnClones, OwnClone
<1>3. CASE GetLocalGit
  <2>1. OwnClone([NoClone EXCEPT !.files = Local.files])
    BY DEF OwnClone, NoClone
  <2>2. QED
    BY <1>0, <1>1, <1>3, <2>1, ClonePut DEF GetLocalGit
<1>4. CASE CloneRepo
  <2>1. OwnClone(Leftover)
    BY DEF OwnClone, OwnRefs, Leftover, NoClone, NoRefs
  <2>2. ASSUME Reachable(instance.url)
        PROVE  OwnClone(Cloned)
    <3>1. /\ OwnRefs(remotes[instance.url].branches, instance.url)
          /\ OwnRefs(remotes[instance.url].tags, instance.url)
      BY <1>0, <2>2 DEF OwnRemotes, Reachable
    <3>2. QED
      BY <3>1, SourceAssumption DEF OwnClone, OwnRefs, Cloned
  <2>3. CASE disk' = [disk EXCEPT ![instance.path] = Cloned] /\ Reachable(instance.url)
    BY <1>0, <2>2, <2>3, ClonePut
  <2>4. CASE disk' = [disk EXCEPT ![instance.path] = Leftover]
    BY <1>0, <2>1, <2>4, ClonePut
  <2>5. QED
    BY <1>1, <1>4, <2>3, <2>4 DEF CloneRepo
<1>5. CASE Fetch
  <2>1. ASSUME NEW remote, remote = remotes[Local.url], Reachable(Local.url),
               disk' = [disk EXCEPT ![instance.path] =
                         [Local EXCEPT !.tracking = Fetched(Local.tracking, remote.branches),
                                       !.tags = Fetched(Local.tags, remote.tags)]]
        PROVE  OwnClones'
    <3>1. remote \in Remote /\ OwnRefs(remote.branches, Local.url) /\ OwnRefs(remote.tags, Local.url)
      BY <1>0, <2>1 DEF OwnRemotes, Reachable, TypeOK, RepositoryTypes
    <3>2. Local.url # NoUrl
      BY <2>1, UrlsApart DEF Reachable
    <3>3. OwnRefs(Local.tracking, Local.url) /\ OwnRefs(Local.tags, Local.url)
      BY <1>a, <3>2 DEF OwnClone
    <3>4. /\ OwnRefs(Fetched(Local.tracking, remote.branches), Local.url)
          /\ OwnRefs(Fetched(Local.tags, remote.tags), Local.url)
      BY <3>1, <3>3 DEF OwnRefs, Fetched
    <3>5. DEFINE clone == [Local EXCEPT !.tracking = Fetched(Local.tracking, remote.branches),
                                        !.tags = Fetched(Local.tags, remote.tags)]
    <3>6. /\ clone.url = Local.url /\ clone.main = Local.main /\ clone.head = Local.head
          /\ clone.tracking = Fetched(Local.tracking, remote.branches)
          /\ clone.tags = Fetched(Local.tags, remote.tags)
      BY <1>a DEF Clone
    <3>7. OwnClone(clone)
      BY <1>a, <3>2, <3>4, <3>6 DEF OwnClone
    <3>8. QED
      BY <1>0, <2>1, <3>7, ClonePut
  <2>2. QED
    BY <1>0, <1>1, <1>5, <2>1, FetchSteps
<1>6. CASE CheckoutRevision
  <2>1. Local.url # NoUrl
    BY <1>0, <1>6 DEF Working, CheckoutRevision
  <2>2. ASSUME NEW commit \in Commit, commit = GetCommitFromTarget(Local, instance.revision),
               disk' = [disk EXCEPT ![instance.path] =
                         [Local EXCEPT !.head = commit, !.files = {commit}]]
        PROVE  OwnClones'
    <3>1. Belongs(commit, Local.url)
      BY <1>0, <1>6, <2>1, <2>2, CommitFromTargetOwned, NoCommitIsNone DEF CheckoutRevision
    <3>2. OwnClone([Local EXCEPT !.head = commit, !.files = {commit}])
      BY <1>a, <2>1, <3>1 DEF OwnClone, Clone
    <3>3. QED
      BY <1>0, <2>2, <3>2, ClonePut
  <2>3. QED
    BY <1>0, <1>1, <1>6, <2>2, CheckoutSteps
<1>7. UNCHANGED disk \/ disk' = DropLocalGitPaths
      \/ GetLocalGit \/ CloneRepo \/ Fetch \/ CheckoutRevision
  BY DEF Next, Reconcile, vars, Get, ApplyDefaults, GiteaSecret, GiteaApplication, Migrate, Retarget,
         PreValidation, Application, Complete, ActionPerformed, Crash, UserEdits, Sync, RemoteChanges,
         GiteaStarts, GiteaApplicationChanges, operatorVars
<1>8. QED
  BY <1>1, <1>2, <1>3, <1>4, <1>5, <1>6, <1>7

-----------------------------------------------------------------------------
(* From the fetch to the Application.                                      *)

(* The target stays the same between these calls.                          *)
LEMMA TargetKept ==
  ASSUME TypeOK, UNCHANGED instance \/ MissingBecomes(FALSE) \/ MissingBecomes(TRUE)
  PROVE  /\ instance'.url = instance.url /\ instance'.path = instance.path
         /\ instance'.revision = instance.revision
         /\ UNCHANGED disk => Local' = Local
<1>1. /\ instance'.url = instance.url /\ instance'.path = instance.path
      /\ instance'.revision = instance.revision
  BY CopiesOfPatterns DEF MissingBecomes, Pattern
<1>2. QED
  BY <1>1 DEF Local

(* The commit that is checked out is the target's, and of a name that the  *)
(* fetch has seen it is that branch's tip.                                 *)
LEMMA CheckedOut ==
  ASSUME SourceInv, CheckoutRevision, pc' = "preValidation"
  PROVE  \E commit \in Commit :
           /\ Local'.files = {commit} /\ Belongs(commit, instance.url) /\ Local'.url = Local.url
           /\ UNCHANGED instance
           /\ instance.revision \in Names /\ seen.branches[instance.revision] # NoCommit
                => commit = seen.branches[instance.revision]
<1>0. TypeOK /\ Copies /\ OwnClones /\ Working /\ pc = "checkout"
  BY DEF SourceInv, CheckoutRevision
<1>1. instance.path # "" /\ Local.url = instance.url /\ instance.url # NoUrl
  BY <1>0 DEF Working
<1>2. PICK commit \in Commit :
         /\ commit = GetCommitFromTarget(Local, instance.revision) /\ UNCHANGED instance
         /\ disk' = [disk EXCEPT ![instance.path] =
                       [Local EXCEPT !.head = commit, !.files = {commit}]]
  BY <1>0, CheckoutSteps DEF EndsNotMissing, Ends
<1>3. Local \in Clone
  BY <1>0, LocalIsAClone DEF TypeOK
<1>4. Local' = [Local EXCEPT !.head = commit, !.files = {commit}]
  BY <1>0, <1>1, <1>2, LocalPut
<1>5. Local'.files = {commit} /\ Local'.url = Local.url
  BY <1>3, <1>4 DEF Clone
<1>6. Belongs(commit, instance.url)
  BY <1>0, <1>1, <1>2, CommitFromTargetOwned, NoCommitIsNone
<1>7. ASSUME instance.revision \in Names, seen.branches[instance.revision] # NoCommit
      PROVE  commit = seen.branches[instance.revision]
  <2>1. Local.tracking[instance.revision] = seen.branches[instance.revision]
    BY <1>0, <1>7 DEF Working
  <2>2. instance.revision # "HEAD"
    BY <1>7, SourceAssumption
  <2>3. QED
    BY <1>2, <1>7, <2>1, <2>2 DEF GetCommitFromTarget
<1>8. QED
  BY <1>2, <1>5, <1>6, <1>7

OffTheClone == {"idle", "applyDefaults", "giteaSecret", "giteaApplication", "migrate", "retarget",
              "getLocalGit", "clone", "complete", "actionPerformed"}

LEMMA OffTheCloneHolds ==
  ASSUME pc' \in OffTheClone
  PROVE  Working' /\ NamedRevisionIsFresh'
  BY DEF OffTheClone, Working, NamedRevisionIsFresh

LEMMA OthersLeaveIt ==
  ASSUME SourceInv, UNCHANGED operatorVars
  PROVE  Working' /\ NamedRevisionIsFresh'
<1>1. Working /\ NamedRevisionIsFresh
  BY DEF SourceInv
<1>2. Local' = Local
  BY DEF operatorVars, Local
<1>3. QED
  BY <1>1, <1>2 DEF operatorVars, Working, NamedRevisionIsFresh, Belongs

LEMMA WorkingStep == SourceInv /\ [Next]_vars => Working' /\ NamedRevisionIsFresh'
<1> SUFFICES ASSUME SourceInv, [Next]_vars
             PROVE  Working' /\ NamedRevisionIsFresh'
  OBVIOUS
<1>0. TypeOK /\ Copies /\ OwnClones /\ Working /\ NamedRevisionIsFresh
  BY DEF SourceInv
<1>1. CASE pc' \in OffTheClone
  BY <1>1, OffTheCloneHolds
<1>2. CASE UNCHANGED operatorVars
  BY <1>2, OthersLeaveIt
<1>3. CASE GetLocalGit /\ pc' = "fetch"
  <2>1. Local.url # NoUrl /\ Local.url = instance.url /\ UNCHANGED <<instance, disk>>
    BY <1>3 DEF GetLocalGit, OfTheTarget, EndsWithout, EndsNotMissing, Ends
  <2>2. instance.path # ""
    BY <2>1 DEF Local, NoClone
  <2>3. Local' = Local
    BY <2>1 DEF Local
  <2>4. QED
    BY <1>3, <2>1, <2>2, <2>3 DEF Working, NamedRevisionIsFresh
<1>4. CASE CloneRepo /\ pc' = "fetch"
  <2>1. /\ instance.path # "" /\ Reachable(instance.url) /\ UNCHANGED instance
        /\ disk' = [disk EXCEPT ![instance.path] = Cloned]
    BY <1>4 DEF CloneRepo, EndsWithout, EndsNotMissing, Ends
  <2>2. Local' = Cloned
    BY <1>0, <2>1, LocalPut
  <2>3. Local'.url = instance.url /\ instance.url # NoUrl
    BY <2>1, <2>2, UrlsApart DEF Cloned, Reachable
  <2>4. QED
    BY <1>4, <2>1, <2>3 DEF Working, NamedRevisionIsFresh
<1>5. CASE Fetch /\ pc' = "checkout"
  <2>1. /\ Reachable(Local.url) /\ UNCHANGED instance /\ seen' = remotes[Local.url]
        /\ disk' = [disk EXCEPT ![instance.path] =
             [Local EXCEPT !.tracking = Fetched(Local.tracking, seen'.branches),
                           !.tags = Fetched(Local.tags, seen'.tags)]]
    BY <1>0, <1>5, FetchSteps DEF EndsNotMissing, Ends
  <2>2. instance.path # "" /\ Local.url = instance.url /\ instance.url # NoUrl /\ Local \in Clone
    BY <1>0, <1>5, LocalIsAClone DEF Working, Fetch, TypeOK
  <2>3. Local' = [Local EXCEPT !.tracking = Fetched(Local.tracking, seen'.branches),
                               !.tags = Fetched(Local.tags, seen'.tags)]
    BY <1>0, <2>1, <2>2, LocalPut
  <2>4. Local'.url = Local.url /\ Local'.tracking = Fetched(Local.tracking, seen'.branches)
    BY <2>2, <2>3 DEF Clone
  <2>5. \A name \in Names : seen'.branches[name] # NoCommit
                              => Local'.tracking[name] = seen'.branches[name]
    BY <2>4 DEF Fetched
  <2>6. QED
    BY <1>5, <2>1, <2>2, <2>4, <2>5 DEF Working, NamedRevisionIsFresh
<1>6. CASE CheckoutRevision /\ pc' = "preValidation"
  <2>1. PICK commit \in Commit :
          /\ Local'.files = {commit} /\ Belongs(commit, instance.url) /\ Local'.url = Local.url
          /\ UNCHANGED instance
          /\ instance.revision \in Names /\ seen.branches[instance.revision] # NoCommit
               => commit = seen.branches[instance.revision]
    BY <1>6, CheckedOut
  <2>2. instance.path # "" /\ Local.url = instance.url /\ instance.url # NoUrl
    BY <1>0, <1>6 DEF Working, CheckoutRevision
  <2>3. Working'
    BY <1>6, <2>1, <2>2 DEF Working, Belongs
  <2>4. UNCHANGED seen
    BY <1>6 DEF CheckoutRevision
  <2>5. NamedRevisionIsFresh'
    BY <1>6, <2>1, <2>4 DEF NamedRevisionIsFresh
  <2>6. QED
    BY <2>3, <2>5
<1>7. CASE PreValidation /\ pc' = "application"
  <2>1. /\ ValuesFileFound /\ UNCHANGED disk /\ pc = "preValidation"
        /\ MissingBecomes(FALSE) \/ MissingBecomes(TRUE)
    BY <1>7 DEF PreValidation
  <2>2. Local' = Local /\ instance'.url = instance.url /\ instance'.path = instance.path
    BY <1>0, <2>1, TargetKept
  <2>3. PICK commit \in Commit : Local.files = {commit} /\ Belongs(commit, instance.url)
    BY <1>0, <2>1 DEF Working
  <2>4. commit.values
    BY <2>1, <2>3 DEF ValuesFileFound
  <2>5. instance.path # "" /\ Local.url = instance.url /\ instance.url # NoUrl
    BY <1>0, <2>1 DEF Working
  <2>6. QED
    BY <1>7, <2>2, <2>3, <2>4, <2>5 DEF Working, NamedRevisionIsFresh, Belongs
<1>8. \/ pc' \in OffTheClone \/ UNCHANGED operatorVars
      \/ (GetLocalGit /\ pc' = "fetch") \/ (CloneRepo /\ pc' = "fetch")
      \/ (Fetch /\ pc' = "checkout") \/ (CheckoutRevision /\ pc' = "preValidation")
      \/ (PreValidation /\ pc' = "application")
  <2>1. CASE Get \/ ApplyDefaults \/ GiteaSecret \/ GiteaApplication \/ Migrate \/ Retarget
    BY <2>1 DEF Get, ApplyDefaults, GiteaSecret, GiteaApplication, Migrate, Retarget, Ends, OffTheClone
  <2>2. CASE GetLocalGit \/ CloneRepo \/ Fetch \/ CheckoutRevision \/ PreValidation
    <3>1. CASE GetLocalGit
      <4>1. pc' = "fetch" \/ pc' \in OffTheClone
        BY <3>1 DEF GetLocalGit, EndsWithout, EndsNotMissing, Ends, OffTheClone
      <4>2. QED
        BY <3>1, <4>1
    <3>2. CASE CloneRepo
      <4>1. pc' = "fetch" \/ pc' \in OffTheClone
        BY <3>2 DEF CloneRepo, EndsWithout, EndsNotMissing, Ends, OffTheClone
      <4>2. QED
        BY <3>2, <4>1
    <3>3. CASE Fetch
      <4>1. pc' = "checkout" \/ pc' \in OffTheClone
        BY <3>3 DEF Fetch, EndsWithout, EndsNotMissing, Ends, OffTheClone
      <4>2. QED
        BY <3>3, <4>1
    <3>4. CASE CheckoutRevision
      <4>1. pc' = "preValidation" \/ pc' \in OffTheClone
        BY <3>4 DEF CheckoutRevision, EndsWithout, EndsNotMissing, Ends, OffTheClone
      <4>2. QED
        BY <3>4, <4>1
    <3>5. CASE PreValidation
      <4>1. pc' = "application" \/ pc' \in OffTheClone
        BY <3>5 DEF PreValidation, OffTheClone
      <4>2. QED
        BY <3>5, <4>1
    <3>6. QED
      BY <2>2, <3>1, <3>2, <3>3, <3>4, <3>5
  <2>3. CASE Application \/ Complete \/ ActionPerformed \/ Crash
    BY <2>3 DEF Application, Complete, ActionPerformed, Crash, Returns, Ends, OffTheClone
  <2>4. CASE UserEdits \/ Sync \/ RemoteChanges \/ GiteaStarts \/ GiteaApplicationChanges
    BY <2>4 DEF UserEdits, Sync, RemoteChanges, GiteaStarts, GiteaApplicationChanges
  <2>5. CASE UNCHANGED vars
    BY <2>5 DEF vars, copyVars, operatorVars
  <2>6. QED
    BY <2>1, <2>2, <2>3, <2>4, <2>5 DEF Next, Reconcile
<1>9. QED
  BY <1>1, <1>2, <1>3, <1>4, <1>5, <1>6, <1>7, <1>8

LEMMA DeployedStep == SourceInv /\ [Next]_vars => Deployed'
<1> SUFFICES ASSUME SourceInv, [Next]_vars
             PROVE  Deployed'
  OBVIOUS
<1>0. TypeOK /\ Working /\ Deployed
  BY DEF SourceInv
<1>1. CASE UNCHANGED app
  BY <1>0, <1>1 DEF Deployed, AppliedWasValidated, Belongs
<1>2. CASE Application /\ app' = Target
  <2>1. PICK commit \in Commit : Local.files = {commit} /\ Belongs(commit, instance.url)
    BY <1>0, <1>2 DEF Working, Application
  <2>2. commit.values
    BY <1>0, <1>2, <2>1 DEF Working, Application
  <2>3. app'.checked = {commit} /\ app'.url = instance.url
    BY <1>2, <2>1 DEF Target
  <2>4. QED
    BY <2>1, <2>2, <2>3 DEF Deployed, AppliedWasValidated, Belongs
<1>3. UNCHANGED app \/ (Application /\ app' = Target)
  BY DEF Next, Reconcile, vars, Get, ApplyDefaults, GiteaSecret, GiteaApplication, Migrate, Retarget,
         GetLocalGit, CloneRepo, Fetch, CheckoutRevision, PreValidation, Application, Complete,
         ActionPerformed, Crash, UserEdits, Sync, RemoteChanges, GiteaStarts,
         GiteaApplicationChanges, operatorVars
<1>4. QED
  BY <1>1, <1>2, <1>3

LEMMA GiteaStep == SourceInv /\ [Next]_vars => GiteaLetsOperatorIn'
<1> SUFFICES ASSUME SourceInv, [Next]_vars
             PROVE  GiteaLetsOperatorIn'
  OBVIOUS
<1>0. StepTypes /\ GiteaLetsOperatorIn
  BY DEF SourceInv, TypeOK
<1>1. \/ UNCHANGED gitea \/ gitea' = [gitea EXCEPT !.secret = Kept(@)]
      \/ gitea' = [gitea EXCEPT !.runsWith = gitea.secret]
      \/ \E state \in {"ours", "outdated", "foreign"} : gitea' = [gitea EXCEPT !.app = state]
  BY DEF Next, Reconcile, vars, Get, ApplyDefaults, GiteaSecret, GiteaApplication, Migrate, Retarget,
         GetLocalGit, CloneRepo, Fetch, CheckoutRevision, PreValidation, Application, Complete,
         ActionPerformed, Crash, UserEdits, Sync, RemoteChanges, GiteaStarts, GiteaApplicationChanges
<1>2. QED
  BY <1>0, <1>1 DEF StepTypes, GiteaLetsOperatorIn, Kept

-----------------------------------------------------------------------------
LEMMA InitHolds == Init => SourceInv
<1> SUFFICES ASSUME Init
             PROVE  SourceInv
  OBVIOUS
<1>1. RepositoryTypes
  <2>1. ASSUME NEW url \in Urls
        PROVE  [NoRemote EXCEPT !.branches[Main] = [repo |-> url, n |-> 1, values |-> TRUE]] \in Remote
    <3>1. [repo |-> url, n |-> 1, values |-> TRUE] \in Commit
      BY UrlsApart, BoundsAreNat DEF Commit
    <3>2. [NoRefs EXCEPT ![Main] = [repo |-> url, n |-> 1, values |-> TRUE]] \in Refs
      BY <3>1, NoRefsAreRefs DEF Refs
    <3>3. QED
      BY <3>2, NoRefsAreRefs DEF NoRemote, Remote
  <2>2. remotes \in [AllUrls -> Remote]
    BY <2>1, NoRemoteIsARemote DEF Init, AllUrls
  <2>3. QED
    BY <2>2, NoRemoteIsARemote, NoCloneIsAClone DEF Init, RepositoryTypes, DropLocalGitPaths
<1>2. PatternTypes
  <2>1. PICK origin \in Origins : \E url \in Urls, revision \in Revisions :
          pattern = [url |-> IF origin = NoUrl THEN url ELSE NoUrl, origin |-> origin,
                     revision |-> revision, path |-> "", missing |-> FALSE, step |-> ""]
    BY DEF Init
  <2>a. PICK url \in Urls, revision \in Revisions :
          pattern = [url |-> IF origin = NoUrl THEN url ELSE NoUrl, origin |-> origin,
                     revision |-> revision, path |-> "", missing |-> FALSE, step |-> ""]
    BY <2>1
  <2>b. (IF origin = NoUrl THEN url ELSE NoUrl) \in AllUrls \union {NoUrl}
    BY UrlsApart
  <2>2. pattern \in Pattern
    BY <2>a, <2>b DEF Pattern
  <2>3. QED
    BY <2>2, NoPatternIsAPattern DEF Init, PatternTypes
<1>3. StepTypes
  <2>1. gitea \in [secret: {"none", "first", "second"},
                   app: {"absent", "ours", "outdated", "foreign"},
                   runsWith: {"none", "first", "second"}]
    BY DEF Init
  <2>2. pc \in Calls
    BY DEF Init, Calls
  <2>a. faults = 0 /\ edits = 0
    BY DEF Init
  <2>3. faults \in 0..MaxFaults /\ edits \in 0..MaxEdits
    BY <2>a, BoundsAreNat
  <2>4. QED
    BY <2>1, <2>2, <2>3 DEF StepTypes
<1>4. Copies /\ Working /\ NamedRevisionIsFresh /\ GiteaLetsOperatorIn
  BY DEF Init, Copies, Working, NamedRevisionIsFresh, GiteaLetsOperatorIn
<1>5. OwnRemotes /\ MainStands
  <2>1. ASSUME NEW url \in AllUrls
        PROVE  /\ OwnRefs(remotes[url].branches, url) /\ OwnRefs(remotes[url].tags, url)
               /\ Exists(url) => remotes[url].branches[Main] # NoCommit
    <3>1. CASE url = GiteaUrl
      BY <3>1 DEF Init, OwnRefs, NoRemote, NoRefs, Exists
    <3>2. CASE url # GiteaUrl
      <4>1. remotes[url] = [NoRemote EXCEPT !.branches[Main] = [repo |-> url, n |-> 1, values |-> TRUE]]
        BY <3>2 DEF Init
      <4>2. /\ remotes[url].tags = NoRefs
            /\ remotes[url].branches = [NoRefs EXCEPT ![Main] = [repo |-> url, n |-> 1, values |-> TRUE]]
        BY <4>1 DEF NoRemote
      <4>3. /\ remotes[url].branches[Main] = [repo |-> url, n |-> 1, values |-> TRUE]
            /\ \A name \in Names : name # Main => remotes[url].branches[name] = NoCommit
        BY <4>2, SourceAssumption DEF NoRefs
      <4>4. [repo |-> url, n |-> 1, values |-> TRUE] # NoCommit
        BY UrlsApart DEF NoCommit
      <4>5. Belongs([repo |-> url, n |-> 1, values |-> TRUE], url)
        BY DEF Belongs
      <4>6. QED
        BY <4>2, <4>3, <4>4, <4>5 DEF OwnRefs, NoRefs
    <3>3. QED
      BY <3>1, <3>2
  <2>2. QED
    BY <2>1 DEF OwnRemotes, MainStands
<1>6. OwnClones
  BY DEF Init, OwnClones, OwnClone, NoClone
<1>7. Deployed
  BY DEF Init, Deployed, AppliedWasValidated, NotMade
<1>8. QED
  BY <1>1, <1>2, <1>3, <1>4, <1>5, <1>6, <1>7 DEF SourceInv, TypeOK

LEMMA SourceInductive == SourceInv /\ [Next]_vars => SourceInv'
  BY TypesStep, CopiesStep, RemotesStep, ClonesStep, WorkingStep, DeployedStep, GiteaStep DEF SourceInv

THEOREM SourceInvariant == Spec => []SourceInv
<1>1. Init => SourceInv
  BY InitHolds
<1>2. SourceInv /\ [Next]_vars => SourceInv'
  BY SourceInductive
<1>3. QED
  BY <1>1, <1>2, PTL DEF Spec

(* The variables, the clone and the Application included, stay in their    *)
(* types.                                                                  *)
THEOREM SourceTypeCorrect == Spec => []TypeOK
<1>1. SourceInv => TypeOK
  BY DEF SourceInv
<1>2. QED
  BY <1>1, SourceInvariant, PTL

(* What is validated and what was applied are commits of the repository    *)
(* that is named with them, whatever the clone at that path was of before. *)
THEOREM NothingForeign == Spec => []NoForeignFiles
<1>1. SourceInv => NoForeignFiles
  <2>1. SUFFICES ASSUME SourceInv
                 PROVE  NoForeignFiles
    OBVIOUS
  <2>2. pc = "preValidation" => \A commit \in Local.files : Belongs(commit, instance.url)
    BY <2>1 DEF SourceInv, Working
  <2>3. \A commit \in app.checked : Belongs(commit, app.url)
    BY <2>1 DEF SourceInv, Deployed
  <2>4. QED
    BY <2>2, <2>3 DEF NoForeignFiles
<1>2. QED
  BY <1>1, SourceInvariant, PTL

(* A named branch is checked out as the fetch has seen it.                 *)
THEOREM FreshRevision == Spec => []NamedRevisionIsFresh
<1>1. SourceInv => NamedRevisionIsFresh
  BY DEF SourceInv
<1>2. QED
  BY <1>1, SourceInvariant, PTL

(* What was applied is one commit in which the values file was found.      *)
THEOREM ValidatedFirst == Spec => []AppliedWasValidated
<1>1. SourceInv => AppliedWasValidated
  BY DEF SourceInv, Deployed
<1>2. QED
  BY <1>1, SourceInvariant, PTL

(* The Gitea server and the Secret agree on the password.                  *)
THEOREM GiteaStaysOpen == Spec => []GiteaLetsOperatorIn
<1>1. SourceInv => GiteaLetsOperatorIn
  BY DEF SourceInv
<1>2. QED
  BY <1>1, SourceInvariant, PTL

LEMMA OperatorsWrites ==
  ASSUME SourceInv, [Next]_vars, UNCHANGED edits
  PROVE  \/ UNCHANGED <<pattern.origin, pattern.url, pattern.revision>>
         \/ /\ Retarget /\ instCurrent
            /\ pattern' = [pattern EXCEPT !.url = GiteaUrl, !.revision = instance.revision]
<1>a. pattern \in Pattern /\ edits \in Nat
  BY CopiesOfPatterns, BoundsAreNat DEF SourceInv, TypeOK, StepTypes
<1>1. CASE UNCHANGED pattern
  BY <1>1
<1>2. CASE Complete \/ ActionPerformed
  BY <1>a, <1>2 DEF Complete, ActionPerformed, Writes, Keeps, Pattern
<1>3. CASE Retarget
  BY <1>3 DEF Retarget, Accepted
<1>4. ~UserEdits
  BY <1>a DEF UserEdits, Edit
<1>5. QED
  BY <1>1, <1>2, <1>3, <1>4
     DEF Next, Reconcile, vars, Get, ApplyDefaults, GiteaSecret, GiteaApplication, Migrate,
         GetLocalGit, CloneRepo, Fetch, CheckoutRevision, PreValidation, Application, Crash, Sync,
         RemoteChanges, GiteaStarts, GiteaApplicationChanges, storedVars

(* Of the stored settings the operator changes only the repository, to the *)
(* fork, and an empty revision, and never from an outdated copy.           *)
THEOREM EditsAreKept == Spec => EditsStand
<1>1. SourceInv /\ [Next]_vars =>
        (edits' = edits =>
           /\ pattern'.origin = pattern.origin
           /\ pattern'.url \in {pattern.url, IF pattern.origin = NoUrl THEN pattern.url ELSE GiteaUrl}
           /\ pattern'.revision \in {pattern.revision, IF pattern.revision = "" THEN "HEAD"
                                                       ELSE pattern.revision})
  <2> SUFFICES ASSUME SourceInv, [Next]_vars, edits' = edits
               PROVE  /\ pattern'.origin = pattern.origin
                      /\ pattern'.url \in {pattern.url, IF pattern.origin = NoUrl THEN pattern.url
                                                        ELSE GiteaUrl}
                      /\ pattern'.revision \in {pattern.revision,
                                                IF pattern.revision = "" THEN "HEAD"
                                                ELSE pattern.revision}
    OBVIOUS
  <2>1. CASE UNCHANGED <<pattern.origin, pattern.url, pattern.revision>>
    BY <2>1
  <2>2. CASE /\ Retarget /\ instCurrent
             /\ pattern' = [pattern EXCEPT !.url = GiteaUrl, !.revision = instance.revision]
    <3>1. pattern \in Pattern
      BY CopiesOfPatterns DEF SourceInv
    <3>2. /\ instance.origin # NoUrl /\ instance.origin = pattern.origin
          /\ \/ instance.revision = pattern.revision
             \/ pattern.revision = "" /\ instance.revision = "HEAD"
      BY <2>2 DEF SourceInv, Copies, Retarget
    <3>3. pattern'.origin = pattern.origin /\ pattern'.url = GiteaUrl
          /\ pattern'.revision = instance.revision
      BY <2>2, <3>1 DEF Pattern
    <3>4. QED
      BY <3>2, <3>3
  <2>3. QED
    BY <2>1, <2>2, OperatorsWrites
<1>2. QED
  BY <1>1, SourceInvariant, PTL DEF Spec, EditsStand

-----------------------------------------------------------------------------
(* The promise.  Beyond what is known of the clone it takes that the fork  *)
(* is there once anything names it, and that a Pattern with an origin gets *)
(* no further than the Gitea calls while it names another repository.      *)
LocalCalls == {"getLocalGit", "clone", "fetch", "checkout", "preValidation", "application"}

Upstream == \A url \in Urls : Exists(url)
ForkIsThere ==
  /\ \A known \in {pattern.url, cache.url, instance.url} : known = GiteaUrl => Exists(GiteaUrl)
  /\ pc = "retarget" => Exists(GiteaUrl)
ServedFromFork == pc \in LocalCalls /\ instance.origin # NoUrl => instance.url = GiteaUrl

ForkInv == SourceInv /\ Upstream /\ ForkIsThere /\ ServedFromFork

(* A repository, once there, stays.                                        *)
LEMMA RepositoriesStay ==
  ASSUME SourceInv, [Next]_vars, NEW url \in AllUrls, Exists(url)
  PROVE  Exists(url)'
<1>0. TypeOK /\ MainStands /\ MainStands' /\ remotes \in [AllUrls -> Remote]
  BY SourceInductive DEF SourceInv, TypeOK, RepositoryTypes
<1>1. CASE UNCHANGED remotes
  BY <1>1 DEF Exists
<1>2. CASE Migrate /\ remotes' = Forked
  BY <1>0, <1>2 DEF Forked, Exists
<1>3. CASE RemoteChanges
  <2>1. PICK u \in AllUrls, name \in Names, c \in Commit \union {NoCommit} :
          /\ Exists(u)
          /\ \/ /\ remotes' = [remotes EXCEPT ![u].branches[name] = c]
                /\ \/ c \in Commit /\ c.repo = u
                   \/ c = NoCommit /\ name # Main
             \/ remotes' = [remotes EXCEPT ![u].tags[name] = c] /\ c = Tip(u, Main)
    BY <1>0, <1>3, RemoteSteps
  <2>2. CASE u # url
    BY <1>0, <2>1, <2>2 DEF Exists
  <2>3. CASE u = url
    <3>1. remotes[url].branches[Main] # NoCommit /\ Main \in Names
      BY <1>0, SourceAssumption DEF MainStands
    <3>2. remotes[url] \in Remote /\ remotes[url].branches \in Refs /\ remotes[url].tags \in Refs
      BY <1>0 DEF Remote
    <3>3. remotes'[url].branches[Main] # NoCommit
      <4>1. CASE /\ remotes' = [remotes EXCEPT ![url].branches[name] = c]
                 /\ c \in Commit \/ name # Main
        <5>1. remotes'[url].branches = [remotes[url].branches EXCEPT ![name] = c]
          BY <1>0, <3>2, <4>1 DEF Remote
        <5>2. remotes'[url].branches[Main] = IF name = Main THEN c ELSE remotes[url].branches[Main]
          BY <3>1, <3>2, <5>1 DEF Refs
        <5>3. QED
          BY <3>1, <4>1, <5>2, NoCommitIsNone
      <4>2. CASE remotes' = [remotes EXCEPT ![url].tags[name] = c]
        <5>1. remotes'[url].branches = remotes[url].branches
          BY <1>0, <3>2, <4>2 DEF Remote
        <5>2. QED
          BY <3>1, <5>1
      <4>3. QED
        BY <2>1, <2>3, <4>1, <4>2
    <3>4. NoRemote.branches[Main] = NoCommit
      BY <3>1 DEF NoRemote, NoRefs
    <3>5. QED
      BY <3>3, <3>4 DEF Exists
  <2>4. QED
    BY <2>2, <2>3
<1>4. UNCHANGED remotes \/ (Migrate /\ remotes' = Forked) \/ RemoteChanges
  BY DEF Next, Reconcile, vars, Get, ApplyDefaults, GiteaSecret, GiteaApplication, Migrate, Retarget,
         GetLocalGit, CloneRepo, Fetch, CheckoutRevision, PreValidation, Application, Complete,
         ActionPerformed, Crash, UserEdits, Sync, GiteaStarts, GiteaApplicationChanges
<1>5. QED
  BY <1>1, <1>2, <1>3, <1>4

(* Where the migration succeeds the fork is there: its origin is.          *)
LEMMA MigrationForks ==
  ASSUME ForkInv, Migrate, remotes' = Forked
  PROVE  Exists(GiteaUrl)'
<1>1. TypeOK /\ Copies /\ Upstream /\ pc = "migrate"
  BY DEF ForkInv, SourceInv, Migrate
<1>2. instance.origin \in Urls /\ instance.origin \in AllUrls
  BY <1>1, InstanceFields, SourceAssumption DEF Copies, TypeOK, AllUrls
<1>3. remotes \in [AllUrls -> Remote] /\ GiteaUrl \in AllUrls
  BY <1>1, UrlsApart DEF TypeOK, RepositoryTypes
<1>4. remotes'[GiteaUrl] = IF Exists(GiteaUrl) THEN remotes[GiteaUrl] ELSE remotes[instance.origin]
  BY <1>3 DEF Forked
<1>5. QED
  BY <1>1, <1>2, <1>4 DEF Upstream, Exists

(* In every step but the update of the Pattern, what is named is what was. *)
LEMMA NamesStep ==
  ASSUME SourceInv, [Next]_vars
  PROVE  \/ Retarget /\ pc' = "getLocalGit" /\ instance' = pattern' /\ pattern'.url = GiteaUrl
              /\ UNCHANGED cache
         \/ /\ pattern'.url = pattern.url \/ pattern'.url \in Urls
            /\ cache'.url \in {cache.url, pattern.url}
            /\ instance'.url \in {instance.url, cache.url, NoUrl}
<1>0. TypeOK /\ pattern \in Pattern /\ instance \in Pattern /\ cache \in Pattern
  BY CopiesOfPatterns DEF SourceInv
<1>1. CASE Retarget
  <2>1. CASE UNCHANGED <<pattern, instance>>
    BY <1>1, <2>1 DEF Retarget
  <2>2. CASE /\ pattern' = [pattern EXCEPT !.url = GiteaUrl, !.revision = instance.revision]
             /\ instance' = pattern' /\ pc' = "getLocalGit"
    BY <1>0, <1>1, <2>2 DEF Retarget, Pattern
  <2>3. QED
    BY <1>1, <2>1, <2>2 DEF Retarget
<1>2. CASE UserEdits
  <2>1. pattern'.url = pattern.url \/ pattern'.url \in Urls
    BY <1>0, <1>2 DEF UserEdits, Pattern
  <2>2. QED
    BY <1>2, <2>1 DEF UserEdits, operatorVars
<1>a. NoPattern.url = NoUrl
  BY DEF NoPattern
<1>3. CASE Get \/ Crash \/ Sync
  <2>1. /\ pattern' = pattern /\ cache' \in {cache, pattern}
        /\ instance' \in {instance, cache, NoPattern}
    BY <1>3 DEF Get, Crash, Sync, Returns, operatorVars
  <2>2. QED
    BY <1>a, <2>1
<1>4. CASE Complete \/ ActionPerformed
  <2>1. pattern'.url = pattern.url
    BY <1>0, <1>4 DEF Complete, ActionPerformed, Writes, Keeps, Pattern
  <2>2. QED
    BY <1>4, <1>a, <2>1 DEF Complete, ActionPerformed, Returns
<1>5. CASE ApplyDefaults
  BY <1>0, <1>5 DEF ApplyDefaults, Pattern
<1>6. CASE GetLocalGit \/ CloneRepo \/ Fetch \/ CheckoutRevision \/ PreValidation
  <2>1. UNCHANGED instance \/ \E missing \in BOOLEAN : MissingBecomes(missing)
    BY <1>6 DEF GetLocalGit, CloneRepo, Fetch, CheckoutRevision, PreValidation, EndsWithout,
                EndsNotMissing, ValuesFileFound
  <2>2. instance'.url = instance.url
    BY <1>0, <2>1 DEF MissingBecomes, Pattern
  <2>3. UNCHANGED <<pattern, cache>>
    BY <1>6 DEF GetLocalGit, CloneRepo, Fetch, CheckoutRevision, PreValidation, storedVars
  <2>4. QED
    BY <2>2, <2>3
<1>7. CASE UNCHANGED <<pattern, cache, instance>>
  BY <1>7
<1>8. QED
  BY <1>1, <1>2, <1>3, <1>4, <1>5, <1>6, <1>7
     DEF Next, Reconcile, vars, GiteaSecret, GiteaApplication, Migrate, Application, RemoteChanges,
         GiteaStarts, GiteaApplicationChanges, copyVars, storedVars, operatorVars

LEMMA ForkStays == ForkInv /\ [Next]_vars => Upstream' /\ ForkIsThere'
<1> SUFFICES ASSUME ForkInv, [Next]_vars
             PROVE  Upstream' /\ ForkIsThere'
  OBVIOUS
<1>0. SourceInv /\ Upstream /\ ForkIsThere
  BY DEF ForkInv
<1>1. \A url \in AllUrls : Exists(url) => Exists(url)'
  BY <1>0, RepositoriesStay
<1>2. Upstream'
  BY <1>0, <1>1, UrlsApart DEF Upstream
<1>3. Exists(GiteaUrl) => Exists(GiteaUrl)'
  BY <1>1, UrlsApart
<1>4. pc' = "retarget" => Exists(GiteaUrl)'
  <2>1. pc' = "retarget" => UNCHANGED pc \/ (Migrate /\ remotes' = Forked)
    BY DEF Next, Reconcile, vars, Get, ApplyDefaults, GiteaSecret, GiteaApplication, Migrate, Retarget,
           GetLocalGit, CloneRepo, Fetch, CheckoutRevision, PreValidation, Application, Complete,
           ActionPerformed, Crash, UserEdits, Sync, RemoteChanges, GiteaStarts,
           GiteaApplicationChanges, operatorVars, Ends, EndsWithout, EndsNotMissing, Returns
  <2>2. QED
    BY <1>0, <1>3, <2>1, MigrationForks DEF ForkIsThere
<1>5. \A known \in {pattern'.url, cache'.url, instance'.url} : known = GiteaUrl => Exists(GiteaUrl)'
  <2>1. CASE Retarget /\ pc' = "getLocalGit"
    <3>1. Exists(GiteaUrl)
      BY <1>0, <2>1 DEF ForkIsThere, Retarget
    <3>2. QED
      BY <1>3, <3>1
  <2>2. CASE /\ pattern'.url = pattern.url \/ pattern'.url \in Urls
             /\ cache'.url \in {cache.url, pattern.url}
             /\ instance'.url \in {instance.url, cache.url, NoUrl}
    BY <1>0, <1>3, <2>2, SourceAssumption DEF ForkIsThere
  <2>3. QED
    BY <1>0, <2>1, <2>2, NamesStep
<1>6. QED
  BY <1>2, <1>4, <1>5 DEF ForkIsThere

(* Only the update of the Pattern leads from Gitea to the local clone.     *)
LEMMA ServedStep == ForkInv /\ [Next]_vars => ServedFromFork'
<1> SUFFICES ASSUME ForkInv, [Next]_vars
             PROVE  ServedFromFork'
  OBVIOUS
<1>0. SourceInv /\ TypeOK /\ ServedFromFork /\ instance \in Pattern
  BY CopiesOfPatterns DEF ForkInv, SourceInv
<1>1. CASE pc' \notin LocalCalls
  BY <1>1 DEF ServedFromFork
<1>2. CASE Retarget /\ pc' = "getLocalGit"
  <2>1. instance'.url = GiteaUrl
    BY <1>0, <1>2, CopiesOfPatterns DEF Retarget, Ends, Pattern
  <2>2. QED
    BY <2>1 DEF ServedFromFork
<1>3. CASE ApplyDefaults /\ pc' = "getLocalGit"
  <2>1. instance.origin = NoUrl
    BY <1>3 DEF ApplyDefaults, Ends, WithOrigin
  <2>2. instance'.origin = instance.origin
    BY <1>0, <1>3 DEF ApplyDefaults, Pattern
  <2>3. QED
    BY <2>1, <2>2 DEF ServedFromFork
<1>4. CASE /\ pc \in LocalCalls /\ instance'.url = instance.url
           /\ instance'.origin = instance.origin
  BY <1>0, <1>4 DEF ServedFromFork
<1>5. CASE UNCHANGED <<pc, instance>>
  BY <1>0, <1>5 DEF ServedFromFork
<1>6. CASE GetLocalGit \/ CloneRepo \/ Fetch \/ CheckoutRevision \/ PreValidation
  <2>1. UNCHANGED instance \/ \E missing \in BOOLEAN : MissingBecomes(missing)
    BY <1>6 DEF GetLocalGit, CloneRepo, Fetch, CheckoutRevision, PreValidation, EndsWithout,
                EndsNotMissing, ValuesFileFound
  <2>2. instance'.url = instance.url /\ instance'.origin = instance.origin
    BY <1>0, <2>1 DEF MissingBecomes, Pattern
  <2>3. pc \in LocalCalls
    BY <1>6 DEF GetLocalGit, CloneRepo, Fetch, CheckoutRevision, PreValidation, LocalCalls
  <2>4. QED
    BY <1>4, <2>2, <2>3
<1>7. CASE Get \/ ApplyDefaults \/ GiteaSecret \/ GiteaApplication \/ Migrate \/ Retarget
  <2>1. pc' \notin LocalCalls \/ (ApplyDefaults /\ pc' = "getLocalGit")
        \/ (Retarget /\ pc' = "getLocalGit")
    BY <1>7 DEF Get, ApplyDefaults, GiteaSecret, GiteaApplication, Migrate, Retarget, Ends, LocalCalls
  <2>2. QED
    BY <1>1, <1>2, <1>3, <2>1
<1>8. CASE Application \/ Complete \/ ActionPerformed \/ Crash
  BY <1>1, <1>8 DEF Application, Complete, ActionPerformed, Crash, Ends, Returns, LocalCalls
<1>9. QED
  BY <1>5, <1>6, <1>7, <1>8
     DEF Next, Reconcile, vars, copyVars, operatorVars, UserEdits, Sync, RemoteChanges, GiteaStarts,
         GiteaApplicationChanges

LEMMA ForkInit == Init => ForkInv
<1> SUFFICES ASSUME Init
             PROVE  ForkInv
  OBVIOUS
<1>1. SourceInv
  BY InitHolds
<1>2. Upstream
  <2>1. SUFFICES ASSUME NEW url \in Urls
                 PROVE  Exists(url)
    BY DEF Upstream
  <2>2. remotes[url] = [NoRemote EXCEPT !.branches[Main] = [repo |-> url, n |-> 1, values |-> TRUE]]
    BY UrlsApart, SourceAssumption DEF Init
  <2>3. remotes[url].branches[Main] = [repo |-> url, n |-> 1, values |-> TRUE]
    BY <2>2, SourceAssumption DEF NoRemote, NoRefs
  <2>4. NoRemote.branches[Main] = NoCommit
    BY SourceAssumption DEF NoRemote, NoRefs
  <2>5. QED
    BY <2>3, <2>4, UrlsApart DEF Exists, NoCommit
<1>3. ForkIsThere
  <2>1. pattern.url \in Urls \union {NoUrl}
    <3>1. PICK origin \in Origins, url \in Urls, revision \in Revisions :
            pattern = [url |-> IF origin = NoUrl THEN url ELSE NoUrl, origin |-> origin,
                       revision |-> revision, path |-> "", missing |-> FALSE, step |-> ""]
      BY DEF Init
    <3>2. pattern.url = IF origin = NoUrl THEN url ELSE NoUrl
      BY <3>1
    <3>3. QED
      BY <3>2
  <2>2. cache = pattern /\ instance = NoPattern /\ pc = "idle"
    BY DEF Init
  <2>3. instance.url = NoUrl
    BY <2>2 DEF NoPattern
  <2>4. QED
    BY <2>1, <2>2, <2>3, SourceAssumption DEF ForkIsThere
<1>4. ServedFromFork
  BY DEF Init, ServedFromFork, LocalCalls
<1>5. QED
  BY <1>1, <1>2, <1>3, <1>4 DEF ForkInv

LEMMA ForkInductive == ForkInv /\ [Next]_vars => ForkInv'
  BY SourceInductive, ForkStays, ServedStep DEF ForkInv

-----------------------------------------------------------------------------
(* The steps of the promise.  What it sees of the state in one place, to   *)
(* be kept or changed.                                                     *)
SettingsKept == GitSettings(pattern)' = GitSettings(pattern)
InformedKept == GitSettings(cache)' = GitSettings(cache)
ViewKept == View' = View
ForkKept == Exists(GiteaUrl)' = Exists(GiteaUrl)
DeploymentKept == Deployment' = Deployment

LEMMA PromiseSettings ==
  ASSUME NEW p \in Pattern
  PROVE  GitSettings(p) \in Promise!Settings
<1>1. /\ p.url \in Urls \union {GiteaUrl, NoUrl} /\ p.origin \in Urls \union {NoUrl}
      /\ (IF p.revision = "" THEN "HEAD" ELSE p.revision) \in Names \union {"HEAD"}
  BY SourceAssumption DEF Pattern, AllUrls
<1>2. QED
  BY <1>1 DEF GitSettings, Promise!Settings

(* What is the same, where nothing is written that the promise sees.       *)
LEMMA PromiseSees ==
  /\ UNCHANGED pattern => SettingsKept
  /\ UNCHANGED cache => InformedKept
  /\ UNCHANGED <<pc, instance>> => ViewKept
  /\ UNCHANGED remotes => ForkKept
  /\ UNCHANGED app => DeploymentKept
  BY DEF SettingsKept, InformedKept, ViewKept, View, ForkKept, Exists, DeploymentKept, Deployment,
         GitSettings

LEMMA PromiseStutter ==
  ASSUME SettingsKept, InformedKept, ViewKept, ForkKept, DeploymentKept
  PROVE  [Promise!Next]_Promise!vars
  BY DEF Promise!vars, SettingsKept, InformedKept, ViewKept, ForkKept, DeploymentKept

LEMMA PromiseInit == Init => Promise!Init
<1> SUFFICES ASSUME Init
             PROVE  Promise!Init
  OBVIOUS
<1>1. GitSettings(pattern) \in Promise!Settings
  BY InitHolds, CopiesOfPatterns, PromiseSettings DEF SourceInv
<1>2. GitSettings(pattern).url # GiteaUrl
  <2>1. PICK origin \in Origins, url \in Urls, revision \in Revisions :
          pattern = [url |-> IF origin = NoUrl THEN url ELSE NoUrl, origin |-> origin,
                     revision |-> revision, path |-> "", missing |-> FALSE, step |-> ""]
    BY DEF Init
  <2>2. pattern.url = IF origin = NoUrl THEN url ELSE NoUrl
    BY <2>1
  <2>3. QED
    BY <2>2, SourceAssumption DEF GitSettings
<1>3. GitSettings(cache) = GitSettings(pattern) /\ View = {} /\ Deployment = {}
  BY DEF Init, View, Deployment
<1>4. ~Exists(GiteaUrl)
  BY UrlsApart DEF Init, Exists
<1>5. QED
  BY <1>1, <1>2, <1>3, <1>4 DEF Promise!Init

LEMMA PromiseBegin ==
  ASSUME ForkInv, Get
  PROVE  [Promise!Next]_Promise!vars
<1>1. SettingsKept /\ InformedKept /\ ForkKept /\ DeploymentKept
  BY PromiseSees DEF Get
<1>2. View = {} /\ View' = {GitSettings(cache)}
  BY DEF Get, View, GitSettings
<1>3. Promise!Begin
  BY <1>1, <1>2 DEF Promise!Begin, SettingsKept, InformedKept, ForkKept, DeploymentKept
<1>4. QED
  BY <1>3 DEF Promise!Next

(* Neither what applyDefaults fills in nor Missing changes the view.       *)
LEMMA PromiseDefaults ==
  ASSUME ForkInv, ApplyDefaults
  PROVE  [Promise!Next]_Promise!vars
<1>1. SettingsKept /\ InformedKept /\ ForkKept /\ DeploymentKept
  BY PromiseSees DEF ApplyDefaults
<1>2. instance \in Pattern
  BY CopiesOfPatterns DEF ForkInv, SourceInv
<1>3. pc # "idle" /\ pc' # "idle"
  BY DEF ApplyDefaults, Ends
<1>4. /\ instance'.url = instance.url /\ instance'.origin = instance.origin
      /\ \/ instance'.revision = instance.revision
         \/ instance.revision = "" /\ instance'.revision = "HEAD"
  BY <1>2 DEF ApplyDefaults, Pattern
<1>5. GitSettings(instance)' = GitSettings(instance)
  BY <1>4 DEF GitSettings
<1>6. ViewKept
  BY <1>3, <1>5 DEF ViewKept, View
<1>7. QED
  BY <1>1, <1>6, PromiseStutter

LEMMA PromiseLocal ==
  ASSUME ForkInv, GetLocalGit \/ CloneRepo \/ Fetch \/ CheckoutRevision \/ PreValidation
  PROVE  [Promise!Next]_Promise!vars
<1>1. SettingsKept /\ InformedKept /\ ForkKept /\ DeploymentKept
  BY PromiseSees DEF GetLocalGit, CloneRepo, Fetch, CheckoutRevision, PreValidation, storedVars
<1>2. instance \in Pattern
  BY CopiesOfPatterns DEF ForkInv, SourceInv
<1>3. UNCHANGED instance \/ \E missing \in BOOLEAN : MissingBecomes(missing)
  BY DEF GetLocalGit, CloneRepo, Fetch, CheckoutRevision, PreValidation, EndsWithout,
         EndsNotMissing, ValuesFileFound
<1>4. /\ instance'.url = instance.url /\ instance'.origin = instance.origin
      /\ instance'.revision = instance.revision
  BY <1>2, <1>3 DEF MissingBecomes, Pattern
<1>5. pc # "idle" /\ pc' # "idle"
  BY DEF GetLocalGit, CloneRepo, Fetch, CheckoutRevision, PreValidation, EndsWithout,
         EndsNotMissing, Ends
<1>6. ViewKept
  BY <1>4, <1>5 DEF ViewKept, View, GitSettings
<1>7. QED
  BY <1>1, <1>6, PromiseStutter

(* Secret and Application of the Gitea server are not the promise's.       *)
LEMMA PromiseGitea ==
  ASSUME GiteaSecret \/ GiteaApplication
  PROVE  [Promise!Next]_Promise!vars
<1>1. SettingsKept /\ InformedKept /\ ForkKept /\ DeploymentKept
  BY PromiseSees DEF GiteaSecret, GiteaApplication, copyVars
<1>2. UNCHANGED instance /\ pc # "idle" /\ pc' # "idle"
  BY DEF GiteaSecret, GiteaApplication, copyVars, Ends
<1>3. ViewKept
  BY <1>2 DEF ViewKept, View, GitSettings
<1>4. QED
  BY <1>1, <1>3, PromiseStutter

LEMMA PromiseCopies ==
  ASSUME ForkInv, Migrate
  PROVE  [Promise!Next]_Promise!vars
<1>1. SettingsKept /\ InformedKept /\ DeploymentKept
  BY PromiseSees DEF Migrate, copyVars
<1>2. UNCHANGED instance /\ pc # "idle" /\ pc' # "idle"
  BY DEF Migrate, copyVars, Ends
<1>3. ViewKept
  BY <1>2 DEF ViewKept, View, GitSettings
<1>4. CASE UNCHANGED remotes
  BY <1>1, <1>3, <1>4, PromiseSees, PromiseStutter
<1>5. CASE remotes' = Forked
  <2>1. Exists(GiteaUrl)' = TRUE
    BY <1>5, MigrationForks DEF Exists
  <2>2. instance.origin # NoUrl
    BY DEF ForkInv, SourceInv, Copies, Migrate
  <2>3. GitSettings(instance) \in View /\ GitSettings(instance).origin # NoUrl
    BY <1>2, <2>2 DEF View, GitSettings
  <2>4. Promise!CopyOrigin
    BY <1>1, <1>3, <2>1, <2>3
       DEF Promise!CopyOrigin, SettingsKept, InformedKept, ViewKept, DeploymentKept
  <2>5. QED
    BY <2>4 DEF Promise!Next
<1>6. QED
  BY <1>4, <1>5 DEF Migrate

(* An update that is accepted is of the version whose settings are stored. *)
LEMMA PromiseRetarget ==
  ASSUME ForkInv, Retarget
  PROVE  [Promise!Next]_Promise!vars
<1>1. InformedKept /\ ForkKept /\ DeploymentKept
  BY PromiseSees DEF Retarget
<1>2. pc # "idle" /\ pc' # "idle"
  BY DEF Retarget, Ends
<1>3. CASE UNCHANGED <<pattern, instance>>
  <2>1. SettingsKept /\ ViewKept
    BY <1>2, <1>3, PromiseSees DEF ViewKept, View, GitSettings
  <2>2. QED
    BY <1>1, <2>1, PromiseStutter
<1>4. CASE /\ instCurrent /\ instance' = pattern'
           /\ pattern' = [pattern EXCEPT !.url = GiteaUrl, !.revision = instance.revision]
  <2>1. pattern \in Pattern
    BY CopiesOfPatterns DEF ForkInv, SourceInv
  <2>2. /\ instance.origin # NoUrl /\ instance.origin = pattern.origin /\ instance.revision # ""
        /\ \/ instance.revision = pattern.revision
           \/ pattern.revision = "" /\ instance.revision = "HEAD"
    BY <1>4 DEF ForkInv, SourceInv, Copies, Retarget
  <2>3. /\ pattern'.url = GiteaUrl /\ pattern'.origin = pattern.origin
        /\ pattern'.revision = instance.revision
    BY <1>4, <2>1 DEF Pattern
  <2>4. GitSettings(pattern)' = [GitSettings(pattern) EXCEPT !.url = GiteaUrl]
    <3> DEFINE revision == IF pattern.revision = "" THEN "HEAD" ELSE pattern.revision
    <3>1. (IF pattern'.revision = "" THEN "HEAD" ELSE pattern'.revision) = revision
      BY <2>2, <2>3
    <3>2. GitSettings(pattern)
            = [url |-> pattern.url, origin |-> pattern.origin, revision |-> revision]
      BY DEF GitSettings
    <3>3. GitSettings(pattern)'
            = [url |-> GiteaUrl, origin |-> pattern.origin, revision |-> revision]
      BY <2>3, <3>1 DEF GitSettings
    <3> HIDE DEF revision
    <3>4. QED
      BY <3>2, <3>3
  <2>5. View' = {GitSettings(pattern)'}
    BY <1>2, <1>4 DEF View, GitSettings
  <2>6. /\ GitSettings(instance) \in View /\ GitSettings(instance).origin # NoUrl
        /\ GitSettings(instance).origin = GitSettings(pattern).origin
        /\ GitSettings(instance).revision = GitSettings(pattern).revision
    BY <1>2, <2>2 DEF View, GitSettings
  <2>7. Exists(GiteaUrl)
    BY DEF ForkInv, ForkIsThere, Retarget
  <2>8. Promise!Retarget
    BY <1>1, <2>4, <2>5, <2>6, <2>7 DEF Promise!Retarget, InformedKept, ForkKept, DeploymentKept
  <2>9. QED
    BY <2>8 DEF Promise!Next
<1>5. QED
  BY <1>3, <1>4 DEF Retarget, Accepted

(* The Application is made of the one commit that was validated, and of    *)
(* the fork where there is an origin.                                      *)
LEMMA PromiseDeploy ==
  ASSUME ForkInv, Application
  PROVE  [Promise!Next]_Promise!vars
<1>1. SettingsKept /\ InformedKept /\ ForkKept
  BY PromiseSees DEF Application, storedVars
<1>2. UNCHANGED instance /\ pc = "application" /\ pc' # "idle"
  BY DEF Application, Ends
<1>3. ViewKept
  BY <1>2 DEF ViewKept, View, GitSettings
<1>4. CASE UNCHANGED app
  BY <1>1, <1>3, <1>4, PromiseSees, PromiseStutter
<1>5. CASE app' = Target
  <2>1. PICK commit \in Commit : Local.files = {commit} /\ Belongs(commit, instance.url)
    BY <1>2 DEF ForkInv, SourceInv, Working
  <2>2. commit.values /\ instance.url # NoUrl
    BY <1>2, <2>1 DEF ForkInv, SourceInv, Working
  <2>3. instance.revision # ""
    BY <1>2 DEF ForkInv, SourceInv, Copies
  <2>4. DEFINE v == GitSettings(instance)
  <2>5. v.url = instance.url /\ v.origin = instance.origin /\ v.revision = instance.revision
    BY <2>3 DEF GitSettings
  <2>6. v \in View
    BY <1>2 DEF View
  <2>7. v.origin # NoUrl => v.url = GiteaUrl
    BY <1>2, <2>5 DEF ForkInv, ServedFromFork, LocalCalls
  <2>8. v.url = GiteaUrl => Exists(GiteaUrl)
    BY <2>5 DEF ForkInv, ForkIsThere
  <2>9. Promise!IsOf(commit, v.url)
    <3>1. commit.repo # NoUrl
      BY UrlsApart DEF Commit
    <3>2. QED
      BY <2>1, <2>5, <3>1, SourceAssumption DEF Promise!IsOf, Belongs
  <2>10. Deployment' = {[url |-> v.url, revision |-> v.revision, checked |-> {commit}]}
    <3>1. app' = [url |-> instance.url, revision |-> instance.revision, checked |-> {commit}]
      BY <1>5, <2>1 DEF Target
    <3>2. app' # NotMade
      BY <2>2, <3>1 DEF NotMade
    <3>3. Deployment' = {app'}
      BY <3>2 DEF Deployment
    <3>4. QED
      BY <2>5, <3>1, <3>3
  <2>11. Promise!Deploy
    <3> HIDE DEF v
    <3>1. v.url # NoUrl
      BY <2>2, <2>5
    <3>2. QED
      BY <1>1, <1>3, <2>2, <2>6, <2>7, <2>8, <2>9, <2>10, <3>1
         DEF Promise!Deploy, SettingsKept, InformedKept, ViewKept, ForkKept
  <2>12. QED
    BY <2>11 DEF Promise!Next
<1>6. QED
  BY <1>4, <1>5 DEF Application

LEMMA PromiseEnd ==
  ASSUME ForkInv, Complete \/ ActionPerformed
  PROVE  [Promise!Next]_Promise!vars
<1>1. InformedKept /\ ForkKept /\ DeploymentKept
  BY PromiseSees DEF Complete, ActionPerformed
<1>2. pattern \in Pattern
  BY CopiesOfPatterns DEF ForkInv, SourceInv
<1>3. pattern'.url = pattern.url /\ pattern'.origin = pattern.origin
      /\ pattern'.revision = pattern.revision
  BY <1>2 DEF Complete, ActionPerformed, Writes, Keeps, Pattern
<1>4. SettingsKept
  BY <1>3 DEF SettingsKept, GitSettings
<1>5. View' = {}
  BY DEF Complete, ActionPerformed, Returns, View
<1>6. Promise!End
  BY <1>1, <1>4, <1>5 DEF Promise!End, SettingsKept, InformedKept, ForkKept, DeploymentKept
<1>7. QED
  BY <1>6 DEF Promise!Next

LEMMA PromiseRestart ==
  ASSUME Crash
  PROVE  [Promise!Next]_Promise!vars
<1>1. SettingsKept /\ ForkKept /\ DeploymentKept
  BY PromiseSees DEF Crash
<1>2. View' = {} /\ GitSettings(cache)' = GitSettings(pattern)
  BY DEF Crash, Returns, View, GitSettings
<1>3. Promise!Restart
  BY <1>1, <1>2 DEF Promise!Restart, SettingsKept, ForkKept, DeploymentKept
<1>4. QED
  BY <1>3 DEF Promise!Next

LEMMA PromiseEdit ==
  ASSUME ForkInv, [Next]_vars, UserEdits
  PROVE  [Promise!Next]_Promise!vars
<1>1. InformedKept /\ ViewKept /\ ForkKept /\ DeploymentKept
  BY PromiseSees DEF UserEdits, operatorVars
<1>2. pattern \in Pattern /\ pattern' \in Pattern
  <2>1. SourceInv /\ SourceInv'
    BY SourceInductive DEF ForkInv
  <2>2. QED
    BY <2>1 DEF SourceInv, TypeOK, PatternTypes
<1>3. pattern'.url \in Urls \union {pattern.url}
  BY <1>2 DEF UserEdits, Pattern
<1>4. /\ GitSettings(pattern)' \in Promise!Settings
      /\ GitSettings(pattern)'.url \in Urls \union {GitSettings(pattern).url}
  <2>1. GitSettings(pattern)' = GitSettings(pattern')
    BY DEF GitSettings
  <2>2. GitSettings(pattern') \in Promise!Settings
    BY <1>2, PromiseSettings
  <2>3. QED
    BY <1>3, <2>1, <2>2 DEF GitSettings
<1>5. Promise!Edit
  BY <1>1, <1>4 DEF Promise!Edit, InformedKept, ViewKept, ForkKept, DeploymentKept
<1>6. QED
  BY <1>5 DEF Promise!Next

LEMMA PromiseInform ==
  ASSUME Sync
  PROVE  [Promise!Next]_Promise!vars
<1>1. SettingsKept /\ ViewKept /\ ForkKept /\ DeploymentKept
  BY PromiseSees DEF Sync, operatorVars
<1>2. GitSettings(cache)' = GitSettings(pattern)
  BY DEF Sync, GitSettings
<1>3. Promise!Inform
  BY <1>1, <1>2 DEF Promise!Inform, SettingsKept, ViewKept, ForkKept, DeploymentKept
<1>4. QED
  BY <1>3 DEF Promise!Next

(* Who works on the repositories, and on Gitea, neither makes nor removes  *)
(* the fork.                                                               *)
LEMMA PromiseOthers ==
  ASSUME ForkInv, [Next]_vars, RemoteChanges \/ GiteaStarts \/ GiteaApplicationChanges
  PROVE  [Promise!Next]_Promise!vars
<1>1. SettingsKept /\ InformedKept /\ ViewKept /\ DeploymentKept
  BY PromiseSees DEF RemoteChanges, GiteaStarts, GiteaApplicationChanges, storedVars, operatorVars
<1>2. CASE RemoteChanges
  <2>1. SourceInv /\ TypeOK /\ remotes \in [AllUrls -> Remote] /\ GiteaUrl \in AllUrls
    BY UrlsApart DEF ForkInv, SourceInv, TypeOK, RepositoryTypes
  <2>2. Exists(GiteaUrl) => Exists(GiteaUrl)'
    BY <2>1, RepositoriesStay
  <2>3. ~Exists(GiteaUrl) => UNCHANGED remotes[GiteaUrl]
    BY <1>2, <2>1, RemoteSteps
  <2>4. ForkKept
    BY <2>2, <2>3 DEF ForkKept, Exists
  <2>5. QED
    BY <1>1, <2>4, PromiseStutter
<1>3. CASE GiteaStarts \/ GiteaApplicationChanges
  BY <1>1, <1>3, PromiseSees, PromiseStutter DEF GiteaStarts, GiteaApplicationChanges
<1>4. QED
  BY <1>2, <1>3

LEMMA PromiseStep == ForkInv /\ [Next]_vars => [Promise!Next]_Promise!vars
<1> SUFFICES ASSUME ForkInv, [Next]_vars
             PROVE  [Promise!Next]_Promise!vars
  OBVIOUS
<1>1. CASE Reconcile \/ Crash
  BY <1>1, PromiseBegin, PromiseDefaults, PromiseGitea, PromiseCopies, PromiseRetarget,
     PromiseLocal, PromiseDeploy, PromiseEnd, PromiseRestart DEF Reconcile
<1>2. CASE UserEdits \/ Sync \/ RemoteChanges \/ GiteaStarts \/ GiteaApplicationChanges
  BY <1>2, PromiseEdit, PromiseInform, PromiseOthers
<1>3. CASE UNCHANGED vars
  BY <1>3, PromiseSees, PromiseStutter DEF vars, copyVars
<1>4. QED
  BY <1>1, <1>2, <1>3 DEF Next

(* The fork is there as soon as anything names it: the Pattern, the cache  *)
(* or the copy that is worked on (createGiteaInstance updates the Pattern  *)
(* after the migration, never before).                                     *)
THEOREM ForkBeforeUse == Spec => []ForkIsThere
<1>1. Init => ForkInv
  BY ForkInit
<1>2. ForkInv /\ [Next]_vars => ForkInv'
  BY ForkInductive
<1>3. ForkInv => ForkIsThere
  BY DEF ForkInv
<1>4. QED
  BY <1>1, <1>2, <1>3, PTL DEF Spec

(* For all its stale copies, shared local paths, failing calls and         *)
(* restarts the operator deploys as the git settings promise: a validated  *)
(* commit of the target, which is the fork where there is an origin        *)
(* (Reconcile, against the comments of GitConfig in pattern_types.go).     *)
THEOREM DeployedSourceImplemented == Spec => ImplementsDeployedSource
<1>1. Init => ForkInv /\ Promise!Init
  BY ForkInit, PromiseInit
<1>2. ForkInv /\ [Next]_vars => ForkInv' /\ [Promise!Next]_Promise!vars
  BY ForkInductive, PromiseStep
<1>3. QED
  BY <1>1, <1>2, PTL DEF Spec, ImplementsDeployedSource, Promise!Spec
=============================================================================
