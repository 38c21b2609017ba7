------------------------------ MODULE DataDir -------------------------------
(***************************************************************************)
(* The data directory of the service, as `service install` prepares it     *)
(* (internal/service/datadir_linux.go, called from InstallOptions).        *)
(*                                                                         *)
(* An installation first inspects the directory without changing anything  *)
(* and keeps descriptors of what it looked at; then it creates the service *)
(* account, and then it establishes the directory through the descriptors: *)
(* a missing one is made, bound, chmod'ed and chown'ed, an existing one    *)
(* only gets its mode.  Several installations may run at once, any call    *)
(* may fail, an installation may be killed, and while it runs others may   *)
(* rename the ancestors of the path and write to directories that are      *)
(* theirs.                                                                 *)
(***************************************************************************)
EXTENDS Integers, FiniteSets

CONSTANTS
  Installer,    (* runs of `service install`; each makes one directory at most *)
  Parent,       (* the directories the path's parent may lead to               *)
  SafeParent,   (* those of root that neither group nor others may write       *)
  Found,        (* the objects there are before                                *)
  None          (* no directory entry, no descriptor, a path with a symlink    *)

DataDirAssumption ==
  /\ SafeParent \subseteq Parent
  /\ Installer \cap Found = {}
  /\ None \notin Installer \cup Found \cup Parent

VARIABLES
  home,      (* the directory the path's parent leads to now                   *)
  entry,     (* the object each parent directory holds under the leaf's name   *)
  node,      (* kind, owner and mode of the objects                            *)
  account,   (* whether the service account exists                             *)
  dirPc,     (* where each installation is                                     *)
  plan,      (* what its inspection decided                                    *)
  fd         (* the parent and the leaf its descriptors are open on            *)

dataDirVars == <<home, entry, node, account, dirPc, plan, fd>>

(* The directory an installation makes is named for it. *)
Node == Installer \cup Found

(* shared: not writable by group or others; open: writable; odd: a mode    *)
(* mkdirat did not ask for, as below a set-group-ID parent.                *)
Object ==
  [ kind : {"dir", "link", "file"}, owner : {"root", "service", "user"},
    mode : {"private", "shared", "open", "odd"} ]

Closed == [parent |-> None, leaf |-> None]

Final == {"ok", "unchanged", "refused", "incomplete", "killed"}

DataDirInit ==
  /\ home \in Parent \cup {None}
  /\ node \in [Node -> {o \in Object : o.mode # "odd"}]
  /\ \A i \in Installer : node[i] = [kind |-> "dir", owner |-> "root", mode |-> "private"]
  /\ \A n \in Found : node[n].kind # "dir" => node[n].mode = "open" /\ node[n].owner = "user"
  /\ entry \in [Parent -> Found \cup {None}]
  /\ \A p, q \in Parent : p # q /\ entry[p] # None => entry[p] # entry[q]
  /\ account \in BOOLEAN
  /\ ~account => \A n \in Found : node[n].owner # "service"
  /\ dirPc = [i \in Installer |-> "open parent"]
  /\ plan = [i \in Installer |-> "none"]
  /\ fd = [i \in Installer |-> Closed]

-----------------------------------------------------------------------------
Go(i, from, to) == dirPc[i] = from /\ dirPc' = [dirPc EXCEPT ![i] = to]

Close(i) == fd' = [fd EXCEPT ![i] = Closed]
Keep(i, which, what) == fd' = [fd EXCEPT ![i][which] = what]

Tree == <<home, entry, node, account>>

(* A refusal closes the descriptors and has changed nothing. *)
Refuse(i, from) == Go(i, from, "refused") /\ Close(i) /\ UNCHANGED <<Tree, plan>>

(* Mistake: any parent will do. *)
ParentAny(p) == TRUE

(* parentSafeReal: the safe parents are so for good, nobody but root can   *)
(* change that.                                                            *)
ParentSafe(p) == p \in SafeParent

(* The current object under the leaf's name, seen through the retained     *)
(* parent descriptor.                                                      *)
Leaf(i) == entry[fd[i].parent]

OpensAsDir(n) == n # None /\ node[n].kind = "dir"

-----------------------------------------------------------------------------
(* inspectDataDir: no call of it changes anything. *)

OpenParent(i) ==
  /\ home # None
  /\ Go(i, "open parent", "stat leaf")
  /\ Keep(i, "parent", home)
  /\ UNCHANGED <<Tree, plan>>

(* The parent walk meets a symlink or a missing directory, or a call fails. *)
InspectionFails(i) == \E s \in {"open parent", "stat leaf", "open leaf", "check leaf"} : Refuse(i, s)

StatLeaf(i) ==
  \/ /\ dirPc[i] = "stat leaf" /\ Leaf(i) = None /\ ParentSafe(fd[i].parent)
     /\ Go(i, "stat leaf", "account")
     /\ plan' = [plan EXCEPT ![i] = "fresh"]
     /\ UNCHANGED <<Tree, fd>>
  \/ /\ dirPc[i] = "stat leaf" /\ Leaf(i) # None /\ node[Leaf(i)].kind # "link"
     /\ Go(i, "stat leaf", "open leaf")
     /\ UNCHANGED <<Tree, plan, fd>>

OpenLeaf(i) ==
  /\ dirPc[i] = "open leaf" /\ OpensAsDir(Leaf(i))
  /\ Go(i, "open leaf", "check leaf")
  /\ Keep(i, "leaf", Leaf(i))
  /\ UNCHANGED <<Tree, plan>>

(* fstat of the retained descriptor, the owner, and the parent again. *)
AcceptsExisting(i) ==
  LET n == node[fd[i].leaf]
  IN  /\ n.mode # "open"
      /\ account /\ n.owner = "service"
      /\ ParentSafe(fd[i].parent)

(* An accepted directory below an unchanged unit and executable ends the   *)
(* installation: there is nothing to do.                                   *)
CheckLeaf(i) ==
  /\ dirPc[i] = "check leaf" /\ AcceptsExisting(i)
  /\ \/ /\ Go(i, "check leaf", "account")
        /\ plan' = [plan EXCEPT ![i] = "existing"]
        /\ UNCHANGED <<Tree, fd>>
     \/ /\ Go(i, "check leaf", "unchanged")
        /\ Close(i)
        /\ UNCHANGED <<Tree, plan>>

(* ensureServiceAccount: an account that exists already is no error. *)
EnsureAccount(i) ==
  \/ /\ Go(i, "account", "establish")
     /\ account' = TRUE
     /\ UNCHANGED <<home, entry, node, plan, fd>>
  \/ Refuse(i, "account")

-----------------------------------------------------------------------------
(* establishDataDir. *)

(* dataParentConsistentReal: the path leads without a symlink to the       *)
(* directory that was inspected.                                           *)
ParentConsistent(i) == home = fd[i].parent

Establish(i) ==
  \/ /\ ParentConsistent(i)
     /\ plan[i] = "fresh" => ParentSafe(fd[i].parent)
     /\ Go(i, "establish", IF plan[i] = "fresh" THEN "mkdir" ELSE "chmod")
     /\ UNCHANGED <<Tree, plan, fd>>
  \/ Refuse(i, "establish")

(* Mistake: cleanup also after a mkdirat that failed. *)
MakeLeafCleans(i) ==
  \/ /\ dirPc[i] = "mkdir" /\ Leaf(i) = None
     /\ \E mode \in {"private", "odd"} : node' = [node EXCEPT ![i].mode = mode]
     /\ entry' = [entry EXCEPT ![fd[i].parent] = i]
     /\ Go(i, "mkdir", "bind")
     /\ UNCHANGED <<home, account, plan, fd>>
  \/ /\ Go(i, "mkdir", "unlink") /\ UNCHANGED <<Tree, plan, fd>>

MakeLeaf(i) ==
  \/ /\ dirPc[i] = "mkdir" /\ Leaf(i) = None
     /\ \E mode \in {"private", "odd"} : node' = [node EXCEPT ![i].mode = mode]
     /\ entry' = [entry EXCEPT ![fd[i].parent] = i]
     /\ Go(i, "mkdir", "bind")
     /\ UNCHANGED <<home, account, plan, fd>>
  \/ Refuse(i, "mkdir")

(* What made the leaf removes it again when a later step fails. *)
CleanUp(i, from) ==
  /\ Go(i, from, "unlink") /\ Keep(i, "leaf", None) /\ UNCHANGED <<Tree, plan>>

BindLeaf(i) ==
  \/ /\ dirPc[i] = "bind" /\ OpensAsDir(Leaf(i))
     /\ Go(i, "bind", "verify")
     /\ Keep(i, "leaf", Leaf(i))
     /\ UNCHANGED <<Tree, plan>>
  \/ CleanUp(i, "bind")

(* Mistake: what is not as mkdirat made it is refused, and left there. *)
VerifyLeafLeaves(i) ==
  \/ /\ dirPc[i] = "verify" /\ node[fd[i].leaf].mode = "private"
     /\ Go(i, "verify", "chmod")
     /\ UNCHANGED <<Tree, plan, fd>>
  \/ Refuse(i, "verify")

VerifyLeaf(i) ==
  \/ /\ dirPc[i] = "verify" /\ node[fd[i].leaf].mode = "private"
     /\ Go(i, "verify", "chmod")
     /\ UNCHANGED <<Tree, plan, fd>>
  \/ CleanUp(i, "verify")

(* Mistake: the mode of an existing directory is taken as it is. *)
SetModeFreshOnly(i) ==
  \/ /\ Go(i, "chmod", IF plan[i] = "fresh" THEN "chown" ELSE "ok")
     /\ IF plan[i] = "fresh" THEN UNCHANGED fd ELSE Close(i)
     /\ UNCHANGED <<Tree, plan>>
  \/ plan[i] = "existing" /\ Refuse(i, "chmod")
  \/ plan[i] = "fresh" /\ CleanUp(i, "chmod")

(* fchmod of the retained leaf: the last call for an existing directory. *)
SetMode(i) ==
  \/ /\ Go(i, "chmod", IF plan[i] = "fresh" THEN "chown" ELSE "ok")
     /\ node' = [node EXCEPT ![fd[i].leaf].mode = "private"]
     /\ IF plan[i] = "fresh" THEN UNCHANGED fd ELSE Close(i)
     /\ UNCHANGED <<home, entry, account, plan>>
  \/ plan[i] = "existing" /\ Refuse(i, "chmod")
  \/ plan[i] = "fresh" /\ CleanUp(i, "chmod")

SetOwner(i) ==
  \/ /\ Go(i, "chown", "inspect")
     /\ node' = [node EXCEPT ![fd[i].leaf].owner = "service"]
     /\ UNCHANGED <<home, entry, account, plan, fd>>
  \/ CleanUp(i, "chown")

(* The last fstat. *)
InspectLeaf(i) ==
  \/ Go(i, "inspect", "ok") /\ Close(i) /\ UNCHANGED <<Tree, plan>>
  \/ CleanUp(i, "inspect")

(* cleanupLeafError: an empty directory is removed by its name below the   *)
(* retained parent; that this failed is part of the error.                 *)
Unlink(i) ==
  \/ /\ dirPc[i] = "unlink" /\ OpensAsDir(Leaf(i))
     /\ entry' = [entry EXCEPT ![fd[i].parent] = None]
     /\ Go(i, "unlink", "refused") /\ Close(i)
     /\ UNCHANGED <<home, node, account, plan>>
  \/ /\ Go(i, "unlink", "incomplete") /\ Close(i) /\ UNCHANGED <<Tree, plan>>

-----------------------------------------------------------------------------
(* The rest of the machine. *)

Kill(i) ==
  /\ dirPc[i] \notin Final
  /\ dirPc' = [dirPc EXCEPT ![i] = "killed"]
  /\ Close(i)
  /\ UNCHANGED <<Tree, plan>>

(* An ancestor is renamed, or becomes a symlink. *)
AncestorsChange ==
  /\ home' \in (Parent \cup {None}) \ {home}
  /\ UNCHANGED <<entry, node, account, dirPc, plan, fd>>

(* A user exchanges what a directory of his holds for something of his. *)
UserReplaces(p) ==
  /\ p \notin SafeParent
  /\ \E n \in {m \in Found : node[m].owner = "user"} \cup {None} :
       /\ n # None => \A q \in Parent : entry[q] # n
       /\ entry' = [entry EXCEPT ![p] = n]
  /\ entry' # entry
  /\ UNCHANGED <<home, node, account, dirPc, plan, fd>>

Inspect(i) == OpenParent(i) \/ InspectionFails(i) \/ StatLeaf(i) \/ OpenLeaf(i) \/ CheckLeaf(i)

EstablishFresh(i) ==
  MakeLeaf(i) \/ BindLeaf(i) \/ VerifyLeaf(i) \/ SetOwner(i) \/ InspectLeaf(i) \/ Unlink(i)

DataDirNext ==
  \/ \E i \in Installer :
       \/ Inspect(i) \/ EnsureAccount(i)
       \/ Establish(i) \/ EstablishFresh(i) \/ SetMode(i)
       \/ Kill(i)
  \/ AncestorsChange
  \/ \E p \in Parent : UserReplaces(p)

DataDirSpec == DataDirInit /\ [][DataDirNext]_dataDirVars

-----------------------------------------------------------------------------
(* The types of the variables. *)
DataDirTypeOK ==
  /\ home \in Parent \cup {None}
  /\ entry \in [Parent -> Node \cup {None}]
  /\ node \in [Node -> Object]
  /\ account \in BOOLEAN
  /\ dirPc \in [Installer -> Final \cup
       {"open parent", "stat leaf", "open leaf", "check leaf", "account", "establish",
        "mkdir", "bind", "verify", "chmod", "chown", "inspect", "unlink"}]
  /\ plan \in [Installer -> {"none", "fresh", "existing"}]
  /\ fd \in [Installer -> [parent : Parent \cup {None}, leaf : Node \cup {None}]]

(* establishDataDir mutates the object that was validated and no other:    *)
(* whatever others put in its place meanwhile, a directory gets another    *)
(* owner or mode only when an installation made it, or when it was the     *)
(* service's already.                                                      *)
NeverAdopts ==
  [][ \A n \in Node : node'[n] # node[n] => n \in Installer \/ node[n].owner = "service" ]_dataDirVars

(* Cleanup removes the partial directory of its own installation: the      *)
(* entry of a safe parent never disappears unless the installation that    *)
(* made the directory gave up, not because another one found it there.     *)
CleanupRemovesOwn ==
  [][ \A p \in SafeParent :
        entry[p] # None /\ entry'[p] # entry[p] =>
          /\ entry[p] \in Installer
          /\ dirPc[entry[p]] \notin Final /\ dirPc'[entry[p]] = "refused" ]_dataDirVars

(* An installation that goes on has a directory for the service: at the    *)
(* moment it does, the object it worked on is a directory of the service   *)
(* with mode 0700, and the safe parent it inspected holds it.  One case    *)
(* apart: the other installation, which made the directory and had given   *)
(* it to the service, removed it because its last fstat failed.            *)
Established ==
  [][ \A i \in Installer :
        dirPc[i] # "ok" /\ dirPc'[i] = "ok" =>
          /\ node'[fd[i].leaf] = [kind |-> "dir", owner |-> "service", mode |-> "private"]
          /\ fd[i].parent \in SafeParent
          /\ \/ entry[fd[i].parent] = fd[i].leaf
             \/ plan[i] = "existing" /\ fd[i].leaf \in Installer /\ dirPc[fd[i].leaf] = "refused" ]_dataDirVars

(* An installation that reports a refusal, without saying that its cleanup *)
(* is incomplete, has left no directory of its own anywhere.               *)
RefusalLeavesNothing ==
  \A i \in Installer : dirPc[i] = "refused" => \A p \in Parent : entry[p] # i
=============================================================================
