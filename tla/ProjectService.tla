--------------------------- MODULE ProjectService ---------------------------
(***************************************************************************)
(* The project verbs of a daemon and the worktrees behind them:            *)
(* ProjectService of crates/nysia-core/src/rpc/project.rs, `ensure` and    *)
(* its helpers in worktree.rs, the projects table of store/project.rs, and *)
(* of rpc/session.rs what opens a session in a folder and attributes it to *)
(* a worktree.                                                             *)
(*                                                                         *)
(* There is one repository.  A path is a sequence of components, a name is *)
(* a sequence of characters, and the id of a project is its path, from     *)
(* which the code derives it.  Git, and the person who uses it in a        *)
(* terminal beside the daemon, are external.  Each run of git, each look   *)
(* at the disk and each lock of the registry or the store is a step: other *)
(* clients, and the person, may come between.                              *)
(***************************************************************************)
EXTENDS Naturals, Sequences, SequencesExt, FiniteSetsExt

CONSTANTS
  Starts, Opens, Registers, Forgets, Lists,  \* requests, by verb
  Folder,      \* the project a request names, or the folder it offers
  BranchOf,    \* the branch a start names
  Earlier,     \* the requests the client of a request sends before it
  Branches,    \* the branches there may be
  Trunk,       \* the branch of the main worktree
  Unused,      \* branches that are there and have no worktree
  Main,        \* the main worktree
  Aside,       \* where the person may put a worktree of their own
  Inside,      \* folders of the main worktree that are no worktree
  Letters,     \* the characters a slug keeps, besides "." and "-"
  Reserved,    \* RESERVED_ON_WINDOWS
  MaxSlug,     \* MAX_SLUG_BYTES
  MaxAttempts, \* MAX_DIRECTORY_ATTEMPTS
  MaxMeddling  \* how often the person meddles

Requests == Starts \cup Opens \cup Registers \cup Forgets \cup Lists
Sessions == Starts \cup Opens
Listings == Registers \cup Lists
Nowhere  == <<>>   \* no path
Detached == <<>>   \* no branch

Base == <<<<".", "nysia">>, <<"worktrees">>>>   \* WORKTREE_BASE

\* CanonicalPath::contains
Covers(p, q) == IsPrefix(p, q)

IsPath(p) == p # Nowhere /\ p \in Seq({p[i] : i \in DOMAIN p})

ASSUME ProjectAssumption ==
  \* a request has one verb
  /\ Starts \cap (Opens \cup Registers \cup Forgets \cup Lists) = {}
  /\ Opens \cap (Registers \cup Forgets \cup Lists) = {}
  /\ Registers \cap (Forgets \cup Lists) = {} /\ Forgets \cap Lists = {}
  \* the main worktree lies in no other's `Base`
  /\ IsPath(Main) /\ IsPath(Aside) /\ ~IsPrefix(Aside \o Base, Main)
  /\ \A p \in Inside : IsPath(p) /\ Covers(Main, p)
  /\ \A r \in Requests : IsPath(Folder[r])
  /\ Requests \subseteq DOMAIN Folder /\ BranchOf \in [Starts -> Branches]
  /\ \A r \in Requests : Earlier[r] \subseteq Requests
  /\ Detached \notin Branches /\ Unused \cup {Trunk} \subseteq Branches
  /\ MaxAttempts \in 1 .. 9 /\ {MaxSlug, MaxMeddling} \subseteq Nat

VARIABLES
  trees,     \* git: the worktrees it lists, and what each has checked out
  branches,  \* git: the branches
  dirs,      \* the worktrees whose directory is there
  concealed, \* whether `.nysia` is there, with its `.gitignore`
  store,     \* the rows of the projects table
  cwd,       \* the folder of the session a request opened
  step,      \* where a request is
  known,     \* its local: whether the branch existed
  place,     \* its local: the folder it found or chose
  view,      \* its local: the worktrees git described to it, with a directory
  answer,    \* its answer: worktree by worktree, the sessions in it
  meddling,  \* how often the person may yet meddle
  touched    \* (history) the worktrees they have changed

gitVars     == <<trees, branches>>
diskVars    == <<dirs, concealed>>
personVars  == <<meddling, touched>>
listingVars == <<view, answer>>
projectVars == <<gitVars, diskVars, store, cwd, step, known, place, listingVars, personVars>>

-----------------------------------------------------------------------------
\* Paths, and the name of a directory.

\* `deepest_containing`, and `mark_primary`
Deepest(folders, q) ==
  LET holding == {p \in folders : Covers(p, q)} IN
    IF holding = {} THEN Nowhere
    ELSE CHOOSE p \in holding : \A o \in holding : Len(o) <= Len(p)

Stem(name) ==
  LET dots == {i \in DOMAIN name : name[i] = "."} IN
    IF dots = {} THEN name ELSE SubSeq(name, 1, Min(dots) - 1)

Trimmed(name) ==
  LET kept == {i \in DOMAIN name : name[i] \notin {"-", "."}} IN
    IF kept = {} THEN <<>> ELSE SubSeq(name, Min(kept), Max(kept))

Slug(branch) ==
  LET push(name, c) ==
        IF Len(name) >= MaxSlug THEN name
        ELSE IF c \in Letters \cup {".", "-"} THEN Append(name, c)
        ELSE IF name # <<>> /\ Last(name) = "-" THEN name ELSE Append(name, "-")
      name == Trimmed(FoldLeft(push, <<>>, branch))
  IN  CASE name = <<>>             -> <<"branch">>
        [] Stem(name) \in Reserved -> name \o <<"-", "branch">>
        [] OTHER                   -> name

Candidate(branch, i) ==
  LET digits == <<"1", "2", "3", "4", "5", "6", "7", "8", "9">>
      suffix == IF i = 1 THEN <<>> ELSE <<"-", digits[i]>>
  IN  Main \o Base \o <<Slug(branch) \o suffix>>

-----------------------------------------------------------------------------
ProjectTypeOK ==
  LET paths == DOMAIN trees IN
  /\ Main \in dirs /\ dirs \subseteq paths
  /\ \A p \in paths : trees[p] = Detached \/ trees[p] \in branches
  \* git does not check a branch out twice
  /\ \A p, q \in paths : p # q /\ trees[p] = trees[q] => trees[p] = Detached
  /\ branches \subseteq Branches /\ concealed \in BOOLEAN
  \* what is made inside the main worktree is directly in `Base`
  /\ \A p \in paths \ {Main, Aside} : Len(p) = Len(Main) + 3
  /\ step \in [Requests -> {"unsent", "precheck", "name", "list", "free", "branch", "conceal",
                            "add", "checkout", "relist", "create", "inspect", "record",
                            "reach", "compose", "over", "refused"}]
  /\ known \in [Starts -> BOOLEAN]
  /\ DOMAIN cwd = Sessions /\ DOMAIN place = Requests
  /\ \A r \in Listings : DOMAIN answer[r] \subseteq DOMAIN view[r]
  /\ meddling \in 0 .. MaxMeddling

ProjectInit ==
  /\ trees = [p \in {Main} |-> Trunk] /\ branches = Unused \cup {Trunk}
  /\ dirs = {Main} /\ concealed = FALSE
  /\ store = <<Main>>
  /\ cwd = [q \in Sessions |-> Nowhere]
  /\ step = [r \in Requests |-> "unsent"]
  /\ known = [s \in Starts |-> FALSE]
  /\ place = [r \in Requests |-> Nowhere]
  /\ view = [r \in Listings |-> <<>>] /\ answer = [r \in Listings |-> <<>>]
  /\ meddling = MaxMeddling /\ touched = {}

\* A connection serves one request at a time.
StepTo(r, from, to) ==
  /\ step[r] = from /\ step' = [step EXCEPT ![r] = to]
  /\ \A e \in Earlier[r] : step[e] \in {"over", "refused"}

Exists(p) == p \in dirs \cup Inside
Stored(p) == \E i \in DOMAIN store : store[i] = p

\* What reads, and so refuses without a trace.
Reads == UNCHANGED <<gitVars, diskVars, store, cwd, listingVars, personVars>>

\* The project's row cannot be read or its folder opened, the CLI of an agent
\* is missing, git does not answer or refuses, the pty does not start.
Fails(r) ==
  /\ step[r] \in {"precheck", "name", "list", "branch", "add", "checkout", "relist", "create",
                  "inspect", "record"}
  /\ step' = [step EXCEPT ![r] = "refused"]
  /\ UNCHANGED <<known, place>> /\ Reads

-----------------------------------------------------------------------------
\* `starting` and `ensure`.

\* `folder_of`, for a start and for an open, which may name a folder instead.
FindFolder(r, to) ==
  /\ LET found == Folder[r] \in Inside \/ (Stored(Folder[r]) /\ Exists(Folder[r])) IN
       StepTo(r, "unsent", IF found THEN to ELSE "refused")
  /\ place' = [place EXCEPT ![r] = Folder[r]]
  /\ UNCHANGED known /\ Reads

\* Two that only read, and may fail: `precheck`, then `check-ref-format`.
Precheck(s) ==
  /\ StepTo(s, "precheck", "name") \/ StepTo(s, "name", "list")
  /\ UNCHANGED <<known, place>> /\ Reads

\* Mutant: the directory with the branch's name in it is taken for its worktree.
OnBranch_ByName(branch) == {p \in DOMAIN trees : trees[p] = branch \/ p = Candidate(branch, 1)}

OnBranch(branch) == {p \in DOMAIN trees : trees[p] = branch}

\* `worktree list`: the worktree of the branch is adopted, whoever made it.
Adopt(s) ==
  /\ \E p \in OnBranch(BranchOf[s]) :
       /\ StepTo(s, "list", IF p \in dirs THEN "create" ELSE "refused")
       /\ place' = [place EXCEPT ![s] = p]
  /\ UNCHANGED known /\ Reads

FindNone(s) ==
  /\ OnBranch(BranchOf[s]) = {} /\ StepTo(s, "list", "free")
  /\ UNCHANGED <<known, place>> /\ Reads

\* `free_directory`
FreeDirectory(s) ==
  LET free == {i \in 1 .. MaxAttempts : Candidate(BranchOf[s], i) \notin dirs} IN
  /\ StepTo(s, "free", IF free = {} THEN "refused" ELSE "branch")
  /\ place' = IF free = {} THEN place ELSE [place EXCEPT ![s] = Candidate(BranchOf[s], Min(free))]
  /\ UNCHANGED known /\ Reads

BranchExists(s) ==
  /\ StepTo(s, "branch", "conceal")
  /\ known' = [known EXCEPT ![s] = BranchOf[s] \in branches]
  /\ UNCHANGED place /\ Reads

\* `conceal` is the first to write.  It is best effort: where it fails, or finds a
\* `.gitignore` already, the start goes on.
Conceal(s) ==
  /\ StepTo(s, "conceal", "add")
  /\ concealed' \in {concealed, TRUE}
  /\ UNCHANGED <<gitVars, dirs, store, cwd, known, place, listingVars, personVars>>

\* `worktree add` by git: with `-b` it makes the branch, which must not exist...
AddBranch(s) ==
  /\ StepTo(s, "add", IF known[s] = (BranchOf[s] \in branches) THEN "checkout" ELSE "refused")
  /\ branches' = branches \cup {BranchOf[s]}
  /\ UNCHANGED <<trees, diskVars, store, cwd, known, place, listingVars, personVars>>

\* ...and then the worktree, unless the branch has one, or the directory exists
\* or is a worktree's that has gone.
AddTree(s) ==
  LET free == OnBranch(BranchOf[s]) = {} /\ place[s] \notin DOMAIN trees IN
  /\ StepTo(s, "checkout", IF free THEN "relist" ELSE "refused")
  /\ trees' = IF free THEN [p \in DOMAIN trees \cup {place[s]} |->
                              IF p = place[s] THEN BranchOf[s] ELSE trees[p]]
              ELSE trees
  /\ dirs' = IF free THEN dirs \cup {place[s]} ELSE dirs
  /\ UNCHANGED <<branches, concealed, store, cwd, known, place, listingVars, personVars>>

\* The list is read again for what was added.
Relist(s) ==
  /\ LET p == IF OnBranch(BranchOf[s]) = {} THEN Nowhere
              ELSE CHOOSE q \in OnBranch(BranchOf[s]) : TRUE IN
       /\ StepTo(s, "relist", IF p \in dirs THEN "create" ELSE "refused")
       /\ place' = [place EXCEPT ![s] = p]
  /\ UNCHANGED known /\ Reads

\* SessionRegistry::create, whose `confine_cwd` looks at the folder again.
Create(q) ==
  /\ StepTo(q, "create", IF Exists(place[q]) THEN "over" ELSE "refused")
  /\ cwd' = IF Exists(place[q]) THEN [cwd EXCEPT ![q] = place[q]] ELSE cwd
  /\ UNCHANGED <<gitVars, diskVars, store, known, place, listingVars, personVars>>

-----------------------------------------------------------------------------
\* `create_session`, `registration` and `forget`.

\* `registration_root`: the checkout that holds the folder, and where that lies
\* in the base of another of its worktrees, the other; of several the first that
\* git lists, which lists the main worktree first.
Holders(primary) ==
  {p \in dirs : p # primary /\ Covers(p, primary) /\ IsPrefix(p \o Base, primary)}

\* Mutant: the checkout, whichever.
RegistrationRoot_Plain(folder) == Deepest(dirs, folder)

RegistrationRoot(folder) ==
  LET primary == Deepest(dirs, folder) IN
    IF Holders(primary) = {} THEN primary
    ELSE IF Main \in Holders(primary) THEN Main
    ELSE CHOOSE p \in Holders(primary) : TRUE

Offer(r) ==
  /\ StepTo(r, "unsent", IF Exists(Folder[r]) THEN "inspect" ELSE "refused")
  /\ UNCHANGED <<known, place>> /\ Reads

Described == [p \in dirs |-> trees[p]]

Inspect(r) ==
  /\ StepTo(r, "inspect", IF Exists(Folder[r]) THEN "record" ELSE "refused")
  /\ place' = [place EXCEPT ![r] = RegistrationRoot(Folder[r])]
  /\ view' = [view EXCEPT ![r] = Described]
  /\ UNCHANGED <<gitVars, diskVars, store, cwd, known, answer, personVars>>

\* `register_project`, in one transaction.
Record(r) ==
  /\ StepTo(r, "record", "compose")
  /\ store' = IF Stored(place[r]) THEN store ELSE Append(store, place[r])
  /\ UNCHANGED <<gitVars, diskVars, cwd, known, place, listingVars, personVars>>

Forget(f) ==
  /\ StepTo(f, "unsent", IF Stored(Folder[f]) THEN "over" ELSE "refused")
  /\ IF Stored(Folder[f]) THEN \E i \in DOMAIN store :
                                 store[i] = Folder[f] /\ store' = RemoveAt(store, i)
     ELSE UNCHANGED store
  /\ UNCHANGED <<gitVars, diskVars, cwd, known, place, listingVars, personVars>>

-----------------------------------------------------------------------------
\* `list` for one of the projects it reads, and `compose`.

ReadStore(l) ==
  /\ Stored(Folder[l]) /\ StepTo(l, "unsent", "reach")
  /\ place' = [place EXCEPT ![l] = Folder[l]]
  /\ UNCHANGED known /\ Reads

\* `reached`; the project lists with no worktrees where git will not describe
\* it, or the deadline of the list passes.
Reached(l) ==
  /\ Exists(place[l]) /\ StepTo(l, "reach", "compose")
  /\ view' = [view EXCEPT ![l] = Described]
  /\ UNCHANGED <<gitVars, diskVars, store, cwd, known, place, answer, personVars>>

Unreachable(l) ==
  /\ l \in Lists
  /\ StepTo(l, "reach", "over") \/ StepTo(l, "compose", "over")
  /\ view' = [view EXCEPT ![l] = <<>>] /\ answer' = [answer EXCEPT ![l] = <<>>]
  /\ UNCHANGED <<gitVars, diskVars, store, cwd, known, place, personVars>>

\* The wire has no worktree without a branch.
Listed(r) == {p \in DOMAIN view[r] : view[r][p] # Detached}

\* Mutant: the worktrees that are listed are all that are considered.
Considered_Listed(r) == Listed(r)

\* Every worktree with a directory.
Considered(r) == DOMAIN view[r]

\* `summaries_under` holds the lock for one worktree.
Attribute(r) ==
  /\ step[r] = "compose"
  /\ \E p \in Listed(r) \ DOMAIN answer[r] :
       answer' = [answer EXCEPT ![r] = [w \in DOMAIN @ \cup {p} |->
         IF w \in DOMAIN @ THEN @[w]
         ELSE {q \in Sessions : cwd[q] # Nowhere /\ Deepest(Considered(r), cwd[q]) = p}]]
  /\ UNCHANGED <<gitVars, diskVars, store, cwd, step, known, place, view, personVars>>

Answer(r) ==
  /\ DOMAIN answer[r] = Listed(r) /\ StepTo(r, "compose", "over")
  /\ UNCHANGED <<known, place>> /\ Reads

-----------------------------------------------------------------------------
\* The person, in a terminal.

Meddles(p) == meddling > 0 /\ meddling' = meddling - 1 /\ touched' = touched \cup {p}

MakesTree(branch) ==
  /\ Meddles(Aside)
  /\ Aside \notin DOMAIN trees /\ OnBranch(branch) = {}
  /\ trees' = [p \in DOMAIN trees \cup {Aside} |-> IF p = Aside THEN branch ELSE trees[p]]
  /\ dirs' = dirs \cup {Aside} /\ branches' = branches \cup {branch}
  /\ UNCHANGED <<concealed, store, cwd, step, known, place, listingVars>>

DeletesDirectory(p) ==
  /\ Meddles(p) /\ p \in dirs \ {Main}
  /\ dirs' = dirs \ {p}
  /\ UNCHANGED <<gitVars, concealed, store, cwd, step, known, place, listingVars>>

\* They prune what they deleted; bounded by the deleting.
Prunes(p) ==
  /\ p \in DOMAIN trees \ dirs
  /\ trees' = [q \in DOMAIN trees \ {p} |-> trees[q]]
  /\ UNCHANGED <<branches, diskVars, store, cwd, step, known, place, listingVars, personVars>>

\* Another branch is checked out in a worktree, or a commit with no branch.
Switches(p, head) ==
  /\ Meddles(p) /\ p \in dirs /\ trees[p] # head
  /\ head \in branches \cup {Detached} /\ (head # Detached => OnBranch(head) = {})
  /\ trees' = [trees EXCEPT ![p] = head]
  /\ UNCHANGED <<branches, diskVars, store, cwd, step, known, place, listingVars>>

-----------------------------------------------------------------------------
Ensures(s) ==
  \/ Adopt(s) \/ FindNone(s) \/ FreeDirectory(s) \/ BranchExists(s)
  \/ Conceal(s) \/ AddBranch(s) \/ AddTree(s) \/ Relist(s)

Meddling ==
  \/ \E b \in Branches : MakesTree(b)
  \/ \E p \in DOMAIN trees :
       DeletesDirectory(p) \/ Prunes(p) \/ \E h \in Branches \cup {Detached} : Switches(p, h)

ProjectNext ==
  \/ \E s \in Starts : FindFolder(s, "precheck") \/ Precheck(s) \/ Ensures(s)
  \/ \E o \in Opens : FindFolder(o, "create")
  \/ \E q \in Sessions : Create(q)
  \/ \E r \in Registers : Offer(r) \/ Inspect(r) \/ Record(r)
  \/ \E f \in Forgets : Forget(f)
  \/ \E l \in Lists : ReadStore(l) \/ Reached(l) \/ Unreachable(l)
  \/ \E r \in Listings : Attribute(r) \/ Answer(r)
  \/ \E r \in Requests : Fails(r)
  \/ Meddling

ProjectSpec == ProjectInit /\ [][ProjectNext]_projectVars

-----------------------------------------------------------------------------
\* Properties.

\* A session that was started on a branch is in the worktree of that branch,
\* and sessions started on one branch are in one worktree, whichever requests
\* ran beside each other and whatever failed before, until the person changes
\* that worktree: worktrees are keyed by branch and a retry adopts.
BranchHonoured ==
  \A s, t \in Starts :
    cwd[s] # Nowhere /\ cwd[t] # Nowhere /\ {cwd[s], cwd[t]} \cap touched = {} =>
      trees[cwd[s]] = BranchOf[s] /\ (BranchOf[s] = BranchOf[t] <=> cwd[s] = cwd[t])

\* A listing shows a session under one worktree at most, and never under
\* another than the one it runs in while that is a worktree, with a branch or
\* without.
ListedWhereItRuns ==
  \A r \in Listings : \A p \in DOMAIN answer[r] : \A q \in answer[r][p] :
    /\ cwd[q] \in DOMAIN view[r] => p = cwd[q]
    /\ \A o \in DOMAIN answer[r] \ {p} : q \notin answer[r][o]

\* No repository folder is two projects: none is stored twice, and none is a
\* worktree that a start made in the base of another.
NoTwins ==
  \A i, j \in DOMAIN store :
    i # j => store[i] # store[j] /\ ~IsPrefix(store[i] \o Base, store[j])

\* What is stored, and what is under way, is of folders and worktrees there are.
StoreIsSound == ProjectTypeOK /\ NoTwins

\* "A directory under `base` that nothing is using yet": what `free_directory`
\* chooses is not where git has a worktree.
ChoosesUnused ==
  [][\A s \in Starts : step[s] = "free" /\ step'[s] = "branch" => place'[s] \notin DOMAIN trees]_projectVars
=============================================================================
