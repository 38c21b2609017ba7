--------------------------- MODULE DataDirProofs ---------------------------
(***************************************************************************)
(* Proofs about DataDir, for every number of installations, of parents and *)
(* of objects.  The invariant says what an installation knows of the       *)
(* parent and the leaf behind its descriptors, and whose directory a safe  *)
(* parent holds.                                                           *)
(***************************************************************************)
EXTENDS DataDir, TLAPS

(* Places of an installation: with an open parent; with a parent it found  *)
(* safe; with a directory of its own.                                      *)
Walking == {"stat leaf", "open leaf", "check leaf"}
Placed == {"account", "establish", "mkdir", "bind", "verify", "chmod", "chown", "inspect", "unlink"}
Made(i) ==
  \/ dirPc[i] \in {"bind", "verify", "chown", "inspect", "unlink"}
  \/ dirPc[i] = "chmod" /\ plan[i] = "fresh"

(* It has accepted a directory it found. *)
Adopting(i) == plan[i] = "existing" /\ dirPc[i] \in {"account", "establish", "chmod"}

Opened(i) ==
  /\ dirPc[i] \in Walking => fd[i].parent \in Parent
  /\ dirPc[i] \in Placed => fd[i].parent \in SafeParent
  /\ dirPc[i] = "check leaf" \/ Adopting(i) => fd[i].leaf \in Node /\ node[fd[i].leaf].kind = "dir"
  /\ Adopting(i) => node[fd[i].leaf].owner = "service"

Planned(i) ==
  /\ dirPc[i] \in {"account", "establish", "chmod"} => plan[i] # "none"
  /\ dirPc[i] \in {"mkdir", "bind", "verify", "chown", "inspect", "unlink"} => plan[i] = "fresh"

(* What it found in a safe parent is there, or its maker removed it. *)
Still(i) ==
  (dirPc[i] = "check leaf" /\ fd[i].parent \in SafeParent) \/ Adopting(i) =>
    \/ entry[fd[i].parent] = fd[i].leaf
    \/ fd[i].leaf \in Installer /\ dirPc[fd[i].leaf] = "refused"

(* A directory it made is where it made it, and open. *)
Holding(i) ==
  Made(i) => /\ entry[fd[i].parent] = i
             /\ dirPc[i] \notin {"bind", "unlink"} => fd[i].leaf = i

(* Its directory is nowhere else, and there only if it made it. *)
Owned(i) ==
  \A p \in Parent : entry[p] = i =>
    \/ Made(i) /\ fd[i].parent = p
    \/ dirPc[i] \in {"ok", "incomplete", "killed"}

Ready(i) ==
  /\ node[i].kind = "dir"
  /\ dirPc[i] \in {"chown", "inspect"} => node[i].mode = "private"
  /\ dirPc[i] = "inspect" => node[i].owner = "service"

Good(i) == Opened(i) /\ Planned(i) /\ Still(i) /\ Holding(i) /\ Owned(i) /\ Ready(i)

DataDirInv == DataDirTypeOK /\ \A i \in Installer : Good(i)

-----------------------------------------------------------------------------
LEMMA InitDataDir == ASSUME DataDirAssumption PROVE DataDirInit => DataDirInv
<1> SUFFICES ASSUME DataDirInit PROVE DataDirInv
  OBVIOUS
<1> USE DEF DataDirAssumption
<1>1. \A i \in Installer : dirPc[i] = "open parent" /\ plan[i] = "none"
  BY DEF DataDirInit
<1>2. DataDirTypeOK
  <2>1. fd \in [Installer -> [parent : Parent \cup {None}, leaf : Node \cup {None}]]
    BY DEF DataDirInit, Closed
  <2>2. node \in [Node -> Object]
    BY DEF DataDirInit
  <2>3. entry \in [Parent -> Node \cup {None}]
    BY DEF DataDirInit, Node
  <2>4. QED
    BY <2>1, <2>2, <2>3 DEF DataDirInit, DataDirTypeOK
<1>3. ASSUME NEW i \in Installer PROVE Good(i)
  <2>1. Opened(i) /\ Planned(i) /\ Still(i) /\ Holding(i)
    BY <1>1 DEF Opened, Planned, Still, Holding, Made, Adopting, Walking, Placed
  <2>2. Owned(i)
    BY DEF DataDirInit, Owned
  <2>3. node[i] = [kind |-> "dir", owner |-> "root", mode |-> "private"]
    BY DEF DataDirInit
  <2>4. Ready(i)
    <3>1. node[i].kind = "dir"
      BY <2>3
    <3>2. dirPc[i] = "open parent"
      BY <1>1
    <3>3. QED
      BY <3>1, <3>2 DEF Ready
  <2>5. QED
    BY <2>1, <2>2, <2>4 DEF Good
<1>4. QED
  BY <1>2, <1>3 DEF DataDirInv

-----------------------------------------------------------------------------
(* A step of one installation, or of somebody else.                        *)
Moves(i, to, q, d) ==
  /\ dirPc' = [dirPc EXCEPT ![i] = to]
  /\ plan' = [plan EXCEPT ![i] = q]
  /\ fd' = [fd EXCEPT ![i] = d]

LEMMA Moved ==
  ASSUME DataDirInv, NEW i \in Installer, NEW to, NEW q, NEW d, Moves(i, to, q, d)
  PROVE  /\ dirPc'[i] = to /\ plan'[i] = q /\ fd'[i] = d
         /\ \A j \in Installer : j # i => dirPc'[j] = dirPc[j] /\ plan'[j] = plan[j] /\ fd'[j] = fd[j]
  BY DEF DataDirInv, DataDirTypeOK, Moves

Rests(j) ==
  /\ dirPc'[j] = dirPc[j] /\ plan'[j] = plan[j] /\ fd'[j] = fd[j]
  /\ \A k \in Installer : dirPc[k] = "refused" => dirPc'[k] = "refused"

(* What it may do to the objects and the entries of the others: no safe    *)
(* parent loses what it holds but for a directory whose maker gives up.    *)
Respects(j) ==
  /\ \A n \in Node : /\ node'[n].kind = node[n].kind
                     /\ node[n].owner = "service" => node'[n].owner = "service"
  /\ node[j].mode = "private" => node'[j].mode = "private"
  /\ \A p \in Parent : entry'[p] = j => entry[p] = j
  /\ \A p \in SafeParent :
       entry[p] # None /\ entry'[p] # entry[p] =>
         entry[p] \in Installer \ {j} /\ dirPc'[entry[p]] = "refused"

LEMMA OthersStayGood ==
  ASSUME DataDirAssumption, DataDirInv, NEW j \in Installer, Rests(j), Respects(j)
  PROVE  Good(j)'
<1>1. dirPc'[j] = dirPc[j] /\ plan'[j] = plan[j] /\ fd'[j] = fd[j]
  BY DEF Rests
<1>2. Good(j) /\ j \in Node /\ None \notin Node /\ SafeParent \subseteq Parent
  BY DEF DataDirInv, Node, DataDirAssumption
<1>3. (Opened(j) /\ Planned(j))'
  BY <1>1, <1>2 DEF Good, Opened, Planned, Adopting, Respects
<1>4. Still(j)'
  <2>1. SUFFICES ASSUME (dirPc[j] = "check leaf" /\ fd[j].parent \in SafeParent) \/ Adopting(j)
                 PROVE  \/ entry'[fd[j].parent] = fd[j].leaf
                        \/ fd[j].leaf \in Installer /\ dirPc'[fd[j].leaf] = "refused"
    BY <1>1 DEF Still, Adopting
  <2>2. fd[j].parent \in SafeParent /\ fd[j].leaf \in Node
    BY <1>2, <2>1 DEF Good, Opened, Adopting, Placed
  <2>3. CASE entry[fd[j].parent] = fd[j].leaf
    BY <1>2, <2>2, <2>3 DEF Respects
  <2>4. CASE fd[j].leaf \in Installer /\ dirPc[fd[j].leaf] = "refused"
    BY <2>4 DEF Rests
  <2>5. QED
    BY <1>2, <2>1, <2>3, <2>4 DEF Good, Still
<1>5. Holding(j)'
  <2>1. SUFFICES ASSUME Made(j) PROVE entry'[fd[j].parent] = j
    BY <1>1, <1>2 DEF Good, Holding, Made
  <2>2. fd[j].parent \in SafeParent /\ entry[fd[j].parent] = j
    BY <1>2, <2>1 DEF Good, Opened, Holding, Made, Placed
  <2>3. QED
    BY <1>2, <2>2 DEF Respects
<1>6. Owned(j)'
  BY <1>1, <1>2 DEF Good, Owned, Made, Respects
<1>7. Ready(j)'
  BY <1>1, <1>2 DEF Good, Ready, Respects
<1>8. QED
  BY <1>3, <1>4, <1>5, <1>6, <1>7 DEF Good

Place ==
  Final \cup {"open parent", "stat leaf", "open leaf", "check leaf", "account", "establish",
              "mkdir", "bind", "verify", "chmod", "chown", "inspect", "unlink"}

(* What is left to show of a step of an installation.                      *)
LEMMA Step ==
  ASSUME DataDirAssumption, DataDirInv, NEW i \in Installer, NEW to \in Place,
         NEW q \in {"none", "fresh", "existing"},
         NEW d \in [parent : Parent \cup {None}, leaf : Node \cup {None}],
         Moves(i, to, q, d), dirPc[i] # "refused", home' = home, account' \in BOOLEAN,
         entry' \in [Parent -> Node \cup {None}], node' \in [Node -> Object],
         \A j \in Installer : j # i => Respects(j),
         Good(i)'
  PROVE  DataDirInv'
<1>1. DataDirTypeOK'
  BY DEF DataDirInv, DataDirTypeOK, Moves, Place
<1>2. \A j \in Installer : j # i => Rests(j)
  BY Moved DEF Rests
<1>3. \A j \in Installer : Good(j)'
  BY <1>2, OthersStayGood
<1>4. QED
  BY <1>1, <1>3 DEF DataDirInv

(* The same of one that changes no object and no entry.                    *)
LEMMA Quiet ==
  ASSUME DataDirAssumption, DataDirInv, NEW i \in Installer, NEW to \in Place,
         NEW q \in {"none", "fresh", "existing"},
         NEW d \in [parent : Parent \cup {None}, leaf : Node \cup {None}],
         Moves(i, to, q, d), dirPc[i] # "refused", UNCHANGED <<home, entry, node>>,
         account' \in BOOLEAN, Good(i)'
  PROVE  DataDirInv'
<1>1. entry' \in [Parent -> Node \cup {None}] /\ node' \in [Node -> Object]
  BY DEF DataDirInv, DataDirTypeOK
<1>2. SafeParent \subseteq Parent
  BY DEF DataDirAssumption
<1>3. \A j \in Installer : Respects(j)
  BY <1>2 DEF Respects
<1>4. QED
  BY <1>1, <1>3, Step

-----------------------------------------------------------------------------
(* Steps that end an installation. *)

LEMMA EndsInv ==
  ASSUME DataDirAssumption, DataDirInv, NEW i \in Installer, NEW to \in Final, dirPc[i] \notin Final,
         Made(i) => to \in {"ok", "incomplete", "killed"},
         dirPc' = [dirPc EXCEPT ![i] = to], Close(i), UNCHANGED <<Tree, plan>>
  PROVE  DataDirInv'
<1>1. /\ UNCHANGED <<home, entry, node, account, plan>>
      /\ to \notin Walking \cup Placed /\ to \in Place /\ dirPc[i] # "refused"
  BY DEF Tree, Final, Walking, Placed, Place
<1>2. Closed \in [parent : Parent \cup {None}, leaf : Node \cup {None}]
  BY DEF Closed
<1>3. plan[i] \in {"none", "fresh", "existing"} /\ account \in BOOLEAN
  BY DEF DataDirInv, DataDirTypeOK
<1>4. Moves(i, to, plan[i], Closed)
  BY <1>1 DEF DataDirInv, DataDirTypeOK, Moves, Close
<1>5. dirPc'[i] = to /\ Good(i)
  BY <1>4, Moved DEF DataDirInv
<1>6. Good(i)'
  <2>1. (Opened(i) /\ Planned(i) /\ Still(i) /\ Holding(i))'
    BY <1>1, <1>5 DEF Opened, Planned, Still, Holding, Adopting, Made, Walking, Placed
  <2>2. Owned(i)'
    BY <1>1, <1>5 DEF Good, Owned, Final
  <2>3. Ready(i)'
    BY <1>1, <1>5 DEF Good, Ready, Walking, Placed
  <2>4. QED
    BY <2>1, <2>2, <2>3 DEF Good
<1>7. QED
  BY <1>1, <1>2, <1>3, <1>4, <1>6, Quiet

LEMMA RefuseInv ==
  ASSUME DataDirAssumption, DataDirInv, NEW i \in Installer, NEW from \in Place \ Final,
         Refuse(i, from), ~Made(i)
  PROVE  DataDirInv'
  BY EndsInv DEF Refuse, Go, Final

LEMMA KillInv ==
  ASSUME DataDirAssumption, DataDirInv, NEW i \in Installer, Kill(i)
  PROVE  DataDirInv'
  BY EndsInv DEF Kill, Final

-----------------------------------------------------------------------------
(* The inspection. *)

LEMMA OpenParentInv ==
  ASSUME DataDirAssumption, DataDirInv, NEW i \in Installer, OpenParent(i)
  PROVE  DataDirInv'
<1> DEFINE d == [fd[i] EXCEPT !.parent = home]
<1>1. /\ dirPc[i] = "open parent" /\ home \in Parent
      /\ dirPc' = [dirPc EXCEPT ![i] = "stat leaf"]
      /\ fd' = [fd EXCEPT ![i].parent = home]
      /\ UNCHANGED <<home, entry, node, account, plan>>
  BY DEF OpenParent, Go, Keep, Tree, DataDirInv, DataDirTypeOK
<1>2. /\ d \in [parent : Parent \cup {None}, leaf : Node \cup {None}] /\ d.parent = home
      /\ plan[i] \in {"none", "fresh", "existing"} /\ account \in BOOLEAN
  BY <1>1 DEF DataDirInv, DataDirTypeOK
<1>3. Moves(i, "stat leaf", plan[i], d)
  BY <1>1 DEF DataDirInv, DataDirTypeOK, Moves
<1>4. dirPc'[i] = "stat leaf" /\ fd'[i] = d /\ Good(i)
  <2>1. dirPc'[i] = "stat leaf" /\ fd'[i] = d
    BY <1>3 DEF DataDirInv, DataDirTypeOK, Moves
  <2>2. QED
    BY <2>1 DEF DataDirInv
<1>5. Good(i)'
  <2>1. (Opened(i) /\ Planned(i) /\ Still(i) /\ Holding(i))'
    BY <1>1, <1>2, <1>4 DEF Opened, Planned, Still, Holding, Adopting, Made, Walking, Placed
  <2>2. (Owned(i) /\ Ready(i))'
    BY <1>1, <1>4 DEF Good, Owned, Ready, Made
  <2>3. QED
    BY <2>1, <2>2 DEF Good
<1>6. QED
  BY <1>1, <1>2, <1>3, <1>5, Quiet DEF Place

LEMMA InspectionFailsInv ==
  ASSUME DataDirAssumption, DataDirInv, NEW i \in Installer, InspectionFails(i)
  PROVE  DataDirInv'
<1>1. PICK s \in {"open parent", "stat leaf", "open leaf", "check leaf"} : Refuse(i, s)
  BY DEF InspectionFails
<1>2. s \in Place \ Final /\ ~Made(i)
  BY <1>1 DEF Refuse, Go, Made, Place, Final
<1>3. QED
  BY <1>1, <1>2, RefuseInv

LEMMA StatLeafInv ==
  ASSUME DataDirAssumption, DataDirInv, NEW i \in Installer, StatLeaf(i)
  PROVE  DataDirInv'
<1>1. PICK to \in {"account", "open leaf"}, q \in {"none", "fresh", "existing"} :
        /\ dirPc[i] = "stat leaf" /\ dirPc' = [dirPc EXCEPT ![i] = to]
        /\ plan' = [plan EXCEPT ![i] = q]
        /\ to = "account" => q = "fresh" /\ fd[i].parent \in SafeParent
        /\ UNCHANGED <<home, entry, node, account, fd>>
  <2>1. plan[i] \in {"none", "fresh", "existing"} /\ plan = [plan EXCEPT ![i] = plan[i]]
    BY DEF DataDirInv, DataDirTypeOK
  <2>2. CASE /\ dirPc[i] = "stat leaf" /\ Leaf(i) = None /\ ParentSafe(fd[i].parent)
             /\ Go(i, "stat leaf", "account")
             /\ plan' = [plan EXCEPT ![i] = "fresh"]
             /\ UNCHANGED <<Tree, fd>>
    BY <2>2 DEF Go, Tree, ParentSafe
  <2>3. CASE /\ Go(i, "stat leaf", "open leaf")
             /\ UNCHANGED <<Tree, plan, fd>>
    BY <2>1, <2>3 DEF Go, Tree
  <2>4. QED
    BY <2>2, <2>3 DEF StatLeaf
<1>2. /\ fd[i] \in [parent : Parent \cup {None}, leaf : Node \cup {None}] /\ account \in BOOLEAN
  BY DEF DataDirInv, DataDirTypeOK
<1>3. Moves(i, to, q, fd[i])
  BY <1>1 DEF DataDirInv, DataDirTypeOK, Moves
<1>4. dirPc'[i] = to /\ plan'[i] = q /\ Good(i)
  <2>1. dirPc'[i] = to /\ plan'[i] = q
    BY <1>3 DEF DataDirInv, DataDirTypeOK, Moves
  <2>2. QED
    BY <2>1 DEF DataDirInv
<1>5. Good(i)'
  <2>1. (Opened(i) /\ Planned(i) /\ Still(i) /\ Holding(i))'
    BY <1>1, <1>4 DEF Good, Opened, Planned, Still, Holding, Adopting, Made, Walking, Placed
  <2>2. (Owned(i) /\ Ready(i))'
    BY <1>1, <1>4 DEF Good, Owned, Ready, Made
  <2>3. QED
    BY <2>1, <2>2 DEF Good
<1>6. QED
  BY <1>1, <1>2, <1>3, <1>5, Quiet DEF Place

LEMMA OpenLeafInv ==
  ASSUME DataDirAssumption, DataDirInv, NEW i \in Installer, OpenLeaf(i)
  PROVE  DataDirInv'
<1> DEFINE d == [fd[i] EXCEPT !.leaf = Leaf(i)]
<1>1. /\ dirPc[i] = "open leaf" /\ Leaf(i) # None /\ node[Leaf(i)].kind = "dir"
      /\ dirPc' = [dirPc EXCEPT ![i] = "check leaf"]
      /\ fd' = [fd EXCEPT ![i].leaf = Leaf(i)]
      /\ UNCHANGED <<home, entry, node, account, plan>>
  BY DEF OpenLeaf, OpensAsDir, Go, Keep, Tree
<1>2. fd[i].parent \in Parent /\ Leaf(i) \in Node
  BY <1>1 DEF DataDirInv, DataDirTypeOK, Good, Opened, Walking, Leaf
<1>3. /\ d \in [parent : Parent \cup {None}, leaf : Node \cup {None}]
      /\ d.parent = fd[i].parent /\ d.leaf = Leaf(i)
      /\ plan[i] \in {"none", "fresh", "existing"} /\ account \in BOOLEAN
  BY <1>2 DEF DataDirInv, DataDirTypeOK
<1>4. Moves(i, "check leaf", plan[i], d)
  BY <1>1 DEF DataDirInv, DataDirTypeOK, Moves
<1>5. dirPc'[i] = "check leaf" /\ fd'[i] = d /\ Good(i)
  <2>1. dirPc'[i] = "check leaf" /\ fd'[i] = d
    BY <1>4 DEF DataDirInv, DataDirTypeOK, Moves
  <2>2. QED
    BY <2>1 DEF DataDirInv
<1>6. Good(i)'
  <2>1. (Opened(i) /\ Planned(i) /\ Holding(i))'
    BY <1>1, <1>2, <1>3, <1>5 DEF Opened, Planned, Holding, Adopting, Made, Walking, Placed
  <2>2. Still(i)'
    BY <1>1, <1>3, <1>5 DEF Still, Leaf
  <2>3. (Owned(i) /\ Ready(i))'
    BY <1>1, <1>5 DEF Good, Owned, Ready, Made
  <2>4. QED
    BY <2>1, <2>2, <2>3 DEF Good
<1>7. QED
  BY <1>1, <1>3, <1>4, <1>6, Quiet DEF Place

LEMMA CheckLeafInv ==
  ASSUME DataDirAssumption, DataDirInv, NEW i \in Installer, CheckLeaf(i)
  PROVE  DataDirInv'
<1>1. dirPc[i] = "check leaf" /\ AcceptsExisting(i)
  BY DEF CheckLeaf
<1>2. CASE /\ Go(i, "check leaf", "account")
           /\ plan' = [plan EXCEPT ![i] = "existing"]
           /\ UNCHANGED <<Tree, fd>>
  <2>1. /\ dirPc' = [dirPc EXCEPT ![i] = "account"]
        /\ UNCHANGED <<home, entry, node, account, fd>>
    BY <1>2 DEF Go, Tree
  <2>2. fd[i] \in [parent : Parent \cup {None}, leaf : Node \cup {None}] /\ account \in BOOLEAN
    BY DEF DataDirInv, DataDirTypeOK
  <2>3. Moves(i, "account", "existing", fd[i])
    BY <1>2, <2>1 DEF DataDirInv, DataDirTypeOK, Moves
  <2>4. dirPc'[i] = "account" /\ plan'[i] = "existing" /\ Good(i)
    BY <2>3, Moved DEF DataDirInv
  <2>5. fd[i].parent \in SafeParent /\ node[fd[i].leaf].owner = "service"
    BY <1>1 DEF AcceptsExisting, ParentSafe
  <2>6. Good(i)'
    <3>1. (Opened(i) /\ Planned(i) /\ Holding(i))'
      BY <1>1, <2>1, <2>4, <2>5 DEF Good, Opened, Planned, Holding, Adopting, Made, Walking, Placed
    <3>2. Still(i)'
      <4>1. \/ entry[fd[i].parent] = fd[i].leaf
            \/ fd[i].leaf \in Installer /\ dirPc[fd[i].leaf] = "refused"
        BY <1>1, <2>4, <2>5 DEF Good, Still
      <4>2. \A k \in Installer : dirPc[k] = "refused" => dirPc'[k] = "refused"
        BY <1>1, <2>1 DEF DataDirInv, DataDirTypeOK
      <4>3. QED
        BY <2>1, <4>1, <4>2 DEF Still
    <3>3. (Owned(i) /\ Ready(i))'
      BY <1>1, <2>1, <2>4 DEF Good, Owned, Ready, Made
    <3>4. QED
      BY <3>1, <3>2, <3>3 DEF Good
  <2>7. QED
    BY <1>1, <2>1, <2>2, <2>3, <2>6, Quiet DEF Place
<1>3. CASE Go(i, "check leaf", "unchanged") /\ Close(i) /\ UNCHANGED <<Tree, plan>>
  BY <1>1, <1>3, EndsInv DEF Go, Final, Made
<1>4. QED
  BY <1>2, <1>3 DEF CheckLeaf

-----------------------------------------------------------------------------
(* A step that only goes on to another place. *)
LEMMA Goes ==
  ASSUME DataDirAssumption, DataDirInv, NEW i \in Installer, NEW to \in Place, dirPc[i] \notin Final,
         dirPc' = [dirPc EXCEPT ![i] = to], UNCHANGED <<home, entry, node, plan, fd>>,
         account' \in BOOLEAN, dirPc'[i] = to => Good(i)'
  PROVE  DataDirInv' /\ dirPc'[i] = to
<1>1. /\ fd[i] \in [parent : Parent \cup {None}, leaf : Node \cup {None}]
      /\ plan[i] \in {"none", "fresh", "existing"}
  BY DEF DataDirInv, DataDirTypeOK
<1>2. Moves(i, to, plan[i], fd[i])
  BY DEF DataDirInv, DataDirTypeOK, Moves
<1>3. dirPc'[i] = to
  BY <1>2, Moved
<1>4. QED
  BY <1>1, <1>2, <1>3, Quiet DEF Final

LEMMA EnsureAccountInv ==
  ASSUME DataDirAssumption, DataDirInv, NEW i \in Installer, EnsureAccount(i)
  PROVE  DataDirInv'
<1>1. CASE /\ Go(i, "account", "establish") /\ account' = TRUE
           /\ UNCHANGED <<home, entry, node, plan, fd>>
  <2>1. dirPc[i] = "account" /\ dirPc' = [dirPc EXCEPT ![i] = "establish"] /\ Good(i)
    BY <1>1 DEF Go, DataDirInv
  <2>2. ASSUME dirPc'[i] = "establish" PROVE Good(i)'
    <3>1. (Opened(i) /\ Planned(i) /\ Holding(i))'
      BY <1>1, <2>1, <2>2 DEF Good, Opened, Planned, Holding, Adopting, Made, Walking, Placed
    <3>2. Still(i)'
      BY <1>1, <2>1, <2>2 DEF Good, Still, Adopting, DataDirInv, DataDirTypeOK
    <3>3. (Owned(i) /\ Ready(i))'
      BY <1>1, <2>1, <2>2 DEF Good, Owned, Ready, Made
    <3>4. QED
      BY <3>1, <3>2, <3>3 DEF Good
  <2>3. QED
    BY <1>1, <2>1, <2>2, Goes DEF Place, Final
<1>2. CASE Refuse(i, "account")
  BY <1>2, RefuseInv DEF Refuse, Go, Made, Place, Final
<1>3. QED
  BY <1>1, <1>2 DEF EnsureAccount

LEMMA EstablishInv ==
  ASSUME DataDirAssumption, DataDirInv, NEW i \in Installer, Establish(i)
  PROVE  DataDirInv'
<1>1. CASE /\ Go(i, "establish", IF plan[i] = "fresh" THEN "mkdir" ELSE "chmod")
           /\ UNCHANGED <<Tree, plan, fd>>
  <2> DEFINE to == IF plan[i] = "fresh" THEN "mkdir" ELSE "chmod"
  <2>1. /\ dirPc[i] = "establish" /\ dirPc' = [dirPc EXCEPT ![i] = to] /\ Good(i)
        /\ UNCHANGED <<home, entry, node, account, plan, fd>> /\ account \in BOOLEAN
        /\ plan[i] \in {"none", "fresh", "existing"}
    BY <1>1 DEF Go, Tree, DataDirInv, DataDirTypeOK
  <2>2. /\ to \in {"mkdir", "chmod"}
        /\ to = "mkdir" => plan[i] = "fresh"
        /\ to = "chmod" => plan[i] = "existing"
    <3>1. plan[i] # "none"
      BY <2>1 DEF Good, Planned
    <3>2. QED
      BY <2>1, <3>1
  <2> HIDE DEF to
  <2>3. ASSUME dirPc'[i] = to PROVE Good(i)'
    <3>1. (Opened(i) /\ Planned(i) /\ Holding(i))'
      BY <2>1, <2>3, <2>2 DEF Good, Opened, Planned, Holding, Adopting, Made, Walking, Placed
    <3>2. Still(i)'
      BY <2>1, <2>3, <2>2 DEF Good, Still, Adopting, DataDirInv, DataDirTypeOK
    <3>3. (Owned(i) /\ Ready(i))'
      BY <2>1, <2>3, <2>2 DEF Good, Owned, Ready, Made
    <3>4. QED
      BY <3>1, <3>2, <3>3 DEF Good
  <2>4. QED
    BY <2>1, <2>3, <2>2, Goes DEF Place, Final
<1>2. CASE Refuse(i, "establish")
  BY <1>2, RefuseInv DEF Refuse, Go, Made, Place, Final
<1>3. QED
  BY <1>1, <1>2 DEF Establish

-----------------------------------------------------------------------------
(* A directory is made, opened and removed. *)

(* What an installation that has found a safe parent knows of it. *)
LEMMA Knows ==
  ASSUME DataDirAssumption, DataDirInv, NEW i \in Installer, dirPc[i] \in Placed
  PROVE  /\ fd[i] \in [parent : Parent \cup {None}, leaf : Node \cup {None}]
         /\ fd[i].parent \in SafeParent /\ fd[i].parent \in Parent
         /\ plan[i] \in {"none", "fresh", "existing"} /\ account \in BOOLEAN
         /\ i \in Node /\ None \notin Node
         /\ Made(i) => entry[fd[i].parent] = i
<1>1. Good(i)
  BY DEF DataDirInv
<1>2. fd[i].parent \in SafeParent /\ (Made(i) => entry[fd[i].parent] = i)
  BY <1>1 DEF Good, Opened, Holding
<1>3. QED
  BY <1>2 DEF DataDirInv, DataDirTypeOK, Node, DataDirAssumption

(* A change of one field of one object. *)
LEMMA WithMode ==
  ASSUME DataDirInv, NEW n \in Node, NEW mode \in {"private", "shared", "open", "odd"},
         node' = [node EXCEPT ![n].mode = mode]
  PROVE  /\ node' \in [Node -> Object]
         /\ node'[n].kind = node[n].kind /\ node'[n].owner = node[n].owner
         /\ node'[n].mode = mode
         /\ \A m \in Node : m # n => node'[m] = node[m]
<1>1. node \in [Node -> Object] /\ node[n] \in Object
  BY DEF DataDirInv, DataDirTypeOK
<1>2. [node[n] EXCEPT !.mode = mode]
        = [kind |-> node[n].kind, owner |-> node[n].owner, mode |-> mode]
  BY <1>1 DEF Object
<1>3. node' = [node EXCEPT ![n] = [kind |-> node[n].kind, owner |-> node[n].owner, mode |-> mode]]
  BY <1>2
<1>4. QED
  BY <1>1, <1>3 DEF Object

LEMMA WithOwner ==
  ASSUME DataDirInv, NEW n \in Node, node' = [node EXCEPT ![n].owner = "service"]
  PROVE  /\ node' \in [Node -> Object]
         /\ node'[n].kind = node[n].kind /\ node'[n].mode = node[n].mode
         /\ node'[n].owner = "service"
         /\ \A m \in Node : m # n => node'[m] = node[m]
<1>1. node \in [Node -> Object] /\ node[n] \in Object
  BY DEF DataDirInv, DataDirTypeOK
<1>2. [node[n] EXCEPT !.owner = "service"]
        = [kind |-> node[n].kind, owner |-> "service", mode |-> node[n].mode]
  BY <1>1 DEF Object
<1>3. node' = [node EXCEPT ![n] =
                 [kind |-> node[n].kind, owner |-> "service", mode |-> node[n].mode]]
  BY <1>2
<1>4. QED
  BY <1>1, <1>3 DEF Object

LEMMA CleanUpInv ==
  ASSUME DataDirAssumption, DataDirInv, NEW i \in Installer,
         NEW from \in {"bind", "verify", "chmod", "chown", "inspect"}, CleanUp(i, from),
         from = "chmod" => plan[i] = "fresh"
  PROVE  DataDirInv'
<1> DEFINE d == [fd[i] EXCEPT !.leaf = None]
<1>1. /\ dirPc[i] = from /\ dirPc' = [dirPc EXCEPT ![i] = "unlink"]
      /\ fd' = [fd EXCEPT ![i].leaf = None]
      /\ UNCHANGED <<home, entry, node, account, plan>>
  BY DEF CleanUp, Go, Keep, Tree
<1>2. dirPc[i] \in Placed /\ Made(i)
  BY <1>1 DEF Placed, Made
<1>3. /\ d \in [parent : Parent \cup {None}, leaf : Node \cup {None}] /\ d.parent = fd[i].parent
      /\ fd[i].parent \in SafeParent /\ entry[fd[i].parent] = i
      /\ plan[i] \in {"none", "fresh", "existing"} /\ account \in BOOLEAN
  BY <1>2, Knows
<1>4. Moves(i, "unlink", plan[i], d)
  BY <1>1 DEF DataDirInv, DataDirTypeOK, Moves
<1>5. dirPc'[i] = "unlink" /\ fd'[i] = d
  BY <1>4 DEF DataDirInv, DataDirTypeOK, Moves
<1>6. Good(i) /\ plan[i] = "fresh"
  BY <1>1 DEF DataDirInv, Good, Planned
<1> HIDE DEF d
<1>7. Good(i)'
  <2>1. (Opened(i) /\ Planned(i) /\ Still(i))'
    BY <1>1, <1>3, <1>5, <1>6 DEF Opened, Planned, Still, Adopting, Walking, Placed
  <2>2. (Holding(i) /\ Owned(i))'
    BY <1>1, <1>2, <1>3, <1>5, <1>6 DEF Good, Holding, Owned, Made
  <2>3. Ready(i)'
    BY <1>1, <1>5, <1>6 DEF Good, Ready
  <2>4. QED
    BY <2>1, <2>2, <2>3 DEF Good
<1>8. QED
  BY <1>1, <1>3, <1>4, <1>7, Quiet DEF Place

LEMMA MakeLeafInv ==
  ASSUME DataDirAssumption, DataDirInv, NEW i \in Installer, MakeLeaf(i)
  PROVE  DataDirInv'
<1>1. CASE /\ dirPc[i] = "mkdir" /\ Leaf(i) = None
           /\ \E mode \in {"private", "odd"} : node' = [node EXCEPT ![i].mode = mode]
           /\ entry' = [entry EXCEPT ![fd[i].parent] = i]
           /\ Go(i, "mkdir", "bind")
           /\ UNCHANGED <<home, account, plan, fd>>
  <2> DEFINE p == fd[i].parent
  <2>1. PICK mode \in {"private", "odd"} : node' = [node EXCEPT ![i].mode = mode]
    BY <1>1
  <2>2. /\ dirPc[i] \in Placed /\ ~Made(i) /\ ~Adopting(i) /\ dirPc' = [dirPc EXCEPT ![i] = "bind"]
        /\ entry[p] = None
    BY <1>1 DEF Placed, Made, Adopting, Go, Leaf
  <2>3. /\ fd[i] \in [parent : Parent \cup {None}, leaf : Node \cup {None}]
        /\ p \in SafeParent /\ p \in Parent
        /\ plan[i] \in {"none", "fresh", "existing"} /\ account \in BOOLEAN
        /\ i \in Node /\ None \notin Node
    BY <2>2, Knows
  <2>4. Moves(i, "bind", plan[i], fd[i])
    BY <1>1, <2>2 DEF DataDirInv, DataDirTypeOK, Moves
  <2>5. dirPc'[i] = "bind" /\ Good(i) /\ plan[i] = "fresh"
    BY <1>1, <2>2 DEF DataDirInv, DataDirTypeOK, Good, Planned
  <2>6. /\ node' \in [Node -> Object]
        /\ \A n \in Node : node'[n].kind = node[n].kind /\ node'[n].owner = node[n].owner
        /\ \A n \in Node : n # i => node'[n] = node[n]
    <3>1. /\ node' \in [Node -> Object]
          /\ node'[i].kind = node[i].kind /\ node'[i].owner = node[i].owner
          /\ \A n \in Node : n # i => node'[n] = node[n]
      BY <2>1, <2>3, WithMode
    <3>2. QED
      BY <3>1
  <2>7. /\ entry' \in [Parent -> Node \cup {None}] /\ entry'[p] = i
        /\ \A q \in Parent : q # p => entry'[q] = entry[q]
    BY <1>1, <2>3 DEF DataDirInv, DataDirTypeOK
  <2>8. ASSUME NEW j \in Installer, j # i PROVE Respects(j)
    BY <2>2, <2>3, <2>6, <2>7, <2>8 DEF Respects, Node, DataDirAssumption
  <2> HIDE DEF p
  <2>9. Good(i)'
    <3>1. fd'[i] = fd[i] /\ plan'[i] = "fresh" /\ p = fd[i].parent
      BY <1>1, <2>5 DEF p
    <3>2. (Opened(i) /\ Planned(i) /\ Still(i))'
      BY <2>3, <2>5, <3>1 DEF Opened, Planned, Still, Adopting, Walking, Placed
    <3>3. Holding(i)'
      BY <2>5, <2>7, <3>1 DEF Holding
    <3>4. Owned(i)'
      <4>1. \A q \in Parent : entry[q] # i
        BY <1>1, <2>2, <2>5 DEF Good, Owned
      <4>2. QED
        BY <2>5, <2>7, <3>1, <4>1 DEF Owned, Made
    <3>5. Ready(i)'
      BY <2>3, <2>5, <2>6 DEF Good, Ready
    <3>6. QED
      BY <3>2, <3>3, <3>4, <3>5 DEF Good
  <2>10. QED
    <3>1. "bind" \in Place /\ dirPc[i] # "refused" /\ home' = home /\ account' \in BOOLEAN
      BY <1>1, <2>3 DEF Place
    <3>2. QED
      BY <2>3, <2>4, <2>6, <2>7, <2>8, <2>9, <3>1, Step
<1>2. CASE Refuse(i, "mkdir")
  BY <1>2, RefuseInv DEF Refuse, Go, Made, Place, Final
<1>3. QED
  BY <1>1, <1>2 DEF MakeLeaf

LEMMA BindLeafInv ==
  ASSUME DataDirAssumption, DataDirInv, NEW i \in Installer, BindLeaf(i)
  PROVE  DataDirInv'
<1>1. CASE /\ dirPc[i] = "bind" /\ OpensAsDir(Leaf(i))
           /\ Go(i, "bind", "verify")
           /\ Keep(i, "leaf", Leaf(i))
           /\ UNCHANGED <<Tree, plan>>
  <2> DEFINE d == [fd[i] EXCEPT !.leaf = i]
  <2>1. dirPc[i] \in Placed /\ Made(i)
    BY <1>1 DEF Placed, Made
  <2>2. /\ d \in [parent : Parent \cup {None}, leaf : Node \cup {None}]
        /\ d.parent = fd[i].parent /\ d.leaf = i
        /\ fd[i].parent \in SafeParent /\ entry[fd[i].parent] = i
        /\ plan[i] \in {"none", "fresh", "existing"} /\ account \in BOOLEAN
    BY <2>1, Knows
  <2>3. /\ dirPc' = [dirPc EXCEPT ![i] = "verify"] /\ fd' = [fd EXCEPT ![i].leaf = i]
        /\ UNCHANGED <<home, entry, node, account, plan>>
    BY <1>1, <2>2 DEF Go, Keep, Leaf, Tree
  <2>4. Moves(i, "verify", plan[i], d)
    BY <2>3 DEF DataDirInv, DataDirTypeOK, Moves
  <2>5. dirPc'[i] = "verify" /\ fd'[i] = d
    BY <2>4 DEF DataDirInv, DataDirTypeOK, Moves
  <2>6. Good(i) /\ plan[i] = "fresh"
    BY <1>1 DEF DataDirInv, Good, Planned
  <2> HIDE DEF d
  <2>7. Good(i)'
    <3>1. (Opened(i) /\ Planned(i) /\ Still(i))'
      BY <2>2, <2>3, <2>5, <2>6 DEF Opened, Planned, Still, Adopting, Walking, Placed
    <3>2. (Holding(i) /\ Owned(i))'
      BY <1>1, <2>1, <2>2, <2>3, <2>5, <2>6 DEF Good, Holding, Owned, Made
    <3>3. Ready(i)'
      BY <2>3, <2>5, <2>6 DEF Good, Ready
    <3>4. QED
      BY <3>1, <3>2, <3>3 DEF Good
  <2>8. QED
    BY <1>1, <2>2, <2>3, <2>4, <2>7, Quiet DEF Place
<1>2. CASE CleanUp(i, "bind")
  BY <1>2, CleanUpInv
<1>3. QED
  BY <1>1, <1>2 DEF BindLeaf

LEMMA VerifyLeafInv ==
  ASSUME DataDirAssumption, DataDirInv, NEW i \in Installer, VerifyLeaf(i)
  PROVE  DataDirInv'
<1>1. CASE /\ dirPc[i] = "verify" /\ Go(i, "verify", "chmod") /\ UNCHANGED <<Tree, plan, fd>>
  <2>1. /\ dirPc[i] = "verify" /\ dirPc' = [dirPc EXCEPT ![i] = "chmod"]
        /\ UNCHANGED <<home, entry, node, account, plan, fd>>
        /\ Good(i) /\ plan[i] = "fresh" /\ account \in BOOLEAN
    BY <1>1 DEF Go, Tree, DataDirInv, DataDirTypeOK, Good, Planned
  <2>2. ASSUME dirPc'[i] = "chmod" PROVE Good(i)'
    <3>1. (Opened(i) /\ Planned(i) /\ Still(i))'
      BY <2>1, <2>2 DEF Good, Opened, Planned, Still, Adopting, Walking, Placed
    <3>2. (Holding(i) /\ Owned(i) /\ Ready(i))'
      BY <2>1, <2>2 DEF Good, Holding, Owned, Ready, Made
    <3>3. QED
      BY <3>1, <3>2 DEF Good
  <2>3. QED
    BY <2>1, <2>2, Goes DEF Place, Final
<1>2. CASE CleanUp(i, "verify")
  BY <1>2, CleanUpInv
<1>3. QED
  BY <1>1, <1>2 DEF VerifyLeaf

LEMMA InspectLeafInv ==
  ASSUME DataDirAssumption, DataDirInv, NEW i \in Installer, InspectLeaf(i)
  PROVE  DataDirInv'
<1>1. CASE Go(i, "inspect", "ok") /\ Close(i) /\ UNCHANGED <<Tree, plan>>
  BY <1>1, EndsInv DEF Go, Final
<1>2. CASE CleanUp(i, "inspect")
  BY <1>2, CleanUpInv
<1>3. QED
  BY <1>1, <1>2 DEF InspectLeaf

LEMMA UnlinkInv ==
  ASSUME DataDirAssumption, DataDirInv, NEW i \in Installer, Unlink(i)
  PROVE  DataDirInv'
<1>1. CASE /\ dirPc[i] = "unlink" /\ OpensAsDir(Leaf(i))
           /\ entry' = [entry EXCEPT ![fd[i].parent] = None]
           /\ Go(i, "unlink", "refused") /\ Close(i)
           /\ UNCHANGED <<home, node, account, plan>>
  <2> DEFINE p == fd[i].parent
  <2>1. /\ dirPc[i] \in Placed /\ Made(i) /\ dirPc' = [dirPc EXCEPT ![i] = "refused"]
        /\ fd' = [fd EXCEPT ![i] = Closed]
    BY <1>1 DEF Placed, Made, Go, Close
  <2>2. /\ p \in SafeParent /\ p \in Parent /\ entry[p] = i
        /\ plan[i] \in {"none", "fresh", "existing"} /\ account \in BOOLEAN
        /\ i \in Node /\ None \notin Node
    BY <2>1, Knows
  <2>3. Closed \in [parent : Parent \cup {None}, leaf : Node \cup {None}]
    BY DEF Closed
  <2>4. Moves(i, "refused", plan[i], Closed)
    BY <1>1, <2>1 DEF DataDirInv, DataDirTypeOK, Moves
  <2>5. dirPc'[i] = "refused" /\ Good(i)
    BY <2>1 DEF DataDirInv, DataDirTypeOK
  <2>6. /\ entry' \in [Parent -> Node \cup {None}] /\ entry'[p] = None
        /\ \A q \in Parent : q # p => entry'[q] = entry[q]
    BY <1>1, <2>2 DEF DataDirInv, DataDirTypeOK
  <2>7. node' \in [Node -> Object]
    BY <1>1 DEF DataDirInv, DataDirTypeOK
  <2>8. ASSUME NEW j \in Installer, j # i PROVE Respects(j)
    BY <1>1, <2>2, <2>5, <2>6, <2>8 DEF Respects, Node, DataDirAssumption
  <2> HIDE DEF p
  <2>9. Good(i)'
    <3>1. (Opened(i) /\ Planned(i) /\ Still(i) /\ Holding(i))'
      BY <2>5 DEF Opened, Planned, Still, Holding, Adopting, Made, Walking, Placed
    <3>2. Owned(i)'
      <4>1. \A q \in Parent : entry[q] = i => q = p
        BY <1>1, <2>5 DEF Good, Owned, p
      <4>2. QED
        BY <2>2, <2>6, <4>1 DEF Owned, Node
    <3>3. Ready(i)'
      BY <1>1, <2>5 DEF Good, Ready
    <3>4. QED
      BY <3>1, <3>2, <3>3 DEF Good
  <2>10. QED
    <3>1. "refused" \in Place /\ dirPc[i] # "refused" /\ home' = home /\ account' \in BOOLEAN
      BY <1>1, <2>2 DEF Place, Final
    <3>2. QED
      BY <2>2, <2>3, <2>4, <2>6, <2>7, <2>8, <2>9, <3>1, Step
<1>2. CASE Go(i, "unlink", "incomplete") /\ Close(i) /\ UNCHANGED <<Tree, plan>>
  BY <1>2, EndsInv DEF Go, Final
<1>3. QED
  BY <1>1, <1>2 DEF Unlink

-----------------------------------------------------------------------------
(* Mode and owner. *)

LEMMA SetModeInv ==
  ASSUME DataDirAssumption, DataDirInv, NEW i \in Installer, SetMode(i)
  PROVE  DataDirInv'
<1> DEFINE n == fd[i].leaf
           to == IF plan[i] = "fresh" THEN "chown" ELSE "ok"
           d == IF plan[i] = "fresh" THEN fd[i] ELSE Closed
<1>1. CASE /\ Go(i, "chmod", IF plan[i] = "fresh" THEN "chown" ELSE "ok")
           /\ node' = [node EXCEPT ![fd[i].leaf].mode = "private"]
           /\ IF plan[i] = "fresh" THEN UNCHANGED fd ELSE Close(i)
           /\ UNCHANGED <<home, entry, account, plan>>
  <2>1. dirPc[i] = "chmod" /\ dirPc[i] \in Placed /\ dirPc' = [dirPc EXCEPT ![i] = to]
    BY <1>1 DEF Go, Placed
  <2>2. /\ fd[i] \in [parent : Parent \cup {None}, leaf : Node \cup {None}]
        /\ fd[i].parent \in SafeParent /\ fd[i].parent \in Parent
        /\ plan[i] \in {"none", "fresh", "existing"} /\ account \in BOOLEAN
        /\ i \in Node /\ None \notin Node
    BY <2>1, Knows
  <2>3. Good(i) /\ plan[i] \in {"fresh", "existing"}
    BY <2>1, <2>2 DEF DataDirInv, Good, Planned
  <2>4. n \in Node /\ (plan[i] = "fresh" => n = i)
    BY <2>1, <2>2, <2>3 DEF Good, Opened, Holding, Made, Adopting
  <2>5. d \in [parent : Parent \cup {None}, leaf : Node \cup {None}] /\ fd' = [fd EXCEPT ![i] = d]
    BY <1>1, <2>2 DEF Closed, Close, DataDirInv, DataDirTypeOK
  <2>6. Moves(i, to, plan[i], d)
    BY <1>1, <2>1, <2>5 DEF DataDirInv, DataDirTypeOK, Moves
  <2>7. dirPc'[i] = to /\ fd'[i] = d /\ plan'[i] = plan[i]
    BY <2>6 DEF DataDirInv, DataDirTypeOK, Moves
  <2>8. /\ node' \in [Node -> Object]
        /\ node'[n].kind = node[n].kind /\ node'[n].owner = node[n].owner
        /\ node'[n].mode = "private"
        /\ \A m \in Node : m # n => node'[m] = node[m]
    BY <1>1, <2>4, WithMode
  <2>9. \A m \in Node : /\ node'[m].kind = node[m].kind /\ node'[m].owner = node[m].owner
                        /\ node[m].mode = "private" => node'[m].mode = "private"
    BY <2>8
  <2>10. ASSUME NEW j \in Installer PROVE Respects(j)
    BY <1>1, <2>9 DEF Respects, Node, DataDirAssumption
  <2>11. entry' \in [Parent -> Node \cup {None}]
    BY <1>1 DEF DataDirInv, DataDirTypeOK
  <2>12. /\ plan[i] = "fresh" => to = "chown" /\ d = fd[i]
         /\ plan[i] # "fresh" => to = "ok"
         /\ to \in Place /\ dirPc[i] # "refused" /\ home' = home /\ account' \in BOOLEAN
    BY <1>1, <2>1, <2>2 DEF Place, Final
  <2> HIDE DEF n, to, d
  <2>13. Good(i)'
    <3>1. (Opened(i) /\ Planned(i) /\ Still(i))'
      BY <2>2, <2>3, <2>7, <2>12 DEF Opened, Planned, Still, Adopting, Walking, Placed
    <3>2. Holding(i)'
      BY <1>1, <2>1, <2>3, <2>7, <2>12 DEF Good, Holding, Made
    <3>3. Owned(i)'
      BY <1>1, <2>1, <2>3, <2>7, <2>12 DEF Good, Owned, Made
    <3>4. Ready(i)'
      <4>1. node'[i].kind = "dir"
        BY <2>2, <2>3, <2>9 DEF Good, Ready
      <4>2. plan[i] = "fresh" => node'[i].mode = "private"
        BY <2>4, <2>8
      <4>3. QED
        BY <2>7, <2>12, <4>1, <4>2 DEF Ready
    <3>5. QED
      BY <3>1, <3>2, <3>3, <3>4 DEF Good
  <2>14. QED
    BY <2>2, <2>5, <2>6, <2>8, <2>10, <2>11, <2>12, <2>13, Step
<1>2. CASE plan[i] = "existing" /\ Refuse(i, "chmod")
  BY <1>2, RefuseInv DEF Refuse, Go, Made, Place, Final
<1>3. CASE plan[i] = "fresh" /\ CleanUp(i, "chmod")
  BY <1>3, CleanUpInv
<1>4. QED
  BY <1>1, <1>2, <1>3 DEF SetMode

LEMMA SetOwnerInv ==
  ASSUME DataDirAssumption, DataDirInv, NEW i \in Installer, SetOwner(i)
  PROVE  DataDirInv'
<1>1. CASE /\ Go(i, "chown", "inspect")
           /\ node' = [node EXCEPT ![fd[i].leaf].owner = "service"]
           /\ UNCHANGED <<home, entry, account, plan, fd>>
  <2>1. dirPc[i] = "chown" /\ dirPc[i] \in Placed /\ Made(i) /\ dirPc' = [dirPc EXCEPT ![i] = "inspect"]
    BY <1>1 DEF Go, Placed, Made
  <2>2. /\ fd[i] \in [parent : Parent \cup {None}, leaf : Node \cup {None}]
        /\ fd[i].parent \in SafeParent /\ entry[fd[i].parent] = i
        /\ plan[i] \in {"none", "fresh", "existing"} /\ account \in BOOLEAN
        /\ i \in Node /\ None \notin Node
    BY <2>1, Knows
  <2>3. Good(i) /\ plan[i] = "fresh"
    BY <2>1 DEF DataDirInv, Good, Planned
  <2>4. fd[i].leaf = i
    BY <2>1, <2>3 DEF Good, Holding
  <2>5. Moves(i, "inspect", plan[i], fd[i])
    BY <1>1, <2>1 DEF DataDirInv, DataDirTypeOK, Moves
  <2>6. dirPc'[i] = "inspect"
    BY <2>1 DEF DataDirInv, DataDirTypeOK
  <2>7. /\ node' \in [Node -> Object]
        /\ node'[i].kind = node[i].kind /\ node'[i].mode = node[i].mode
        /\ node'[i].owner = "service"
        /\ \A m \in Node : m # i => node'[m] = node[m]
    BY <1>1, <2>2, <2>4, WithOwner
  <2>8. \A m \in Node : /\ node'[m].kind = node[m].kind /\ node'[m].mode = node[m].mode
                        /\ node[m].owner = "service" => node'[m].owner = "service"
    BY <2>7
  <2>9. ASSUME NEW j \in Installer PROVE Respects(j)
    BY <1>1, <2>8 DEF Respects, Node, DataDirAssumption
  <2>10. entry' \in [Parent -> Node \cup {None}]
    BY <1>1 DEF DataDirInv, DataDirTypeOK
  <2>11. Good(i)'
    <3>1. (Opened(i) /\ Planned(i) /\ Still(i))'
      BY <1>1, <2>2, <2>3, <2>6 DEF Opened, Planned, Still, Adopting, Walking, Placed
    <3>2. (Holding(i) /\ Owned(i))'
      BY <1>1, <2>1, <2>3, <2>6 DEF Good, Holding, Owned, Made
    <3>3. Ready(i)'
      BY <2>1, <2>3, <2>7 DEF Good, Ready
    <3>4. QED
      BY <3>1, <3>2, <3>3 DEF Good
  <2>12. "inspect" \in Place /\ dirPc[i] # "refused" /\ home' = home /\ account' \in BOOLEAN
    BY <1>1, <2>1, <2>2 DEF Place
  <2>13. QED
    BY <2>2, <2>5, <2>7, <2>9, <2>10, <2>11, <2>12, Step
<1>2. CASE CleanUp(i, "chown")
  BY <1>2, CleanUpInv
<1>3. QED
  BY <1>1, <1>2 DEF SetOwner

-----------------------------------------------------------------------------
(* The others. *)

(* Nobody but an installation changes what a safe parent holds. *)
LEMMA ElsewhereInv ==
  ASSUME DataDirAssumption, DataDirInv, UNCHANGED <<node, account, dirPc, plan, fd>>,
         home' \in Parent \cup {None}, entry' \in [Parent -> Node \cup {None}],
         \A p \in SafeParent : entry'[p] = entry[p],
         \A p \in Parent : entry'[p] \in Installer => entry'[p] = entry[p]
  PROVE  DataDirInv'
<1>1. DataDirTypeOK'
  BY DEF DataDirInv, DataDirTypeOK
<1>2. ASSUME NEW j \in Installer PROVE Good(j)'
  <2>1. Rests(j) /\ Respects(j)
    BY DEF Rests, Respects
  <2>2. QED
    BY <2>1, OthersStayGood
<1>3. QED
  BY <1>1, <1>2 DEF DataDirInv

LEMMA AncestorsChangeInv ==
  ASSUME DataDirAssumption, DataDirInv, AncestorsChange
  PROVE  DataDirInv'
  BY ElsewhereInv DEF AncestorsChange, DataDirInv, DataDirTypeOK

LEMMA UserReplacesInv ==
  ASSUME DataDirAssumption, DataDirInv, NEW p \in Parent, UserReplaces(p)
  PROVE  DataDirInv'
<1>1. PICK n \in Found \cup {None} :
        /\ p \notin SafeParent /\ entry' = [entry EXCEPT ![p] = n]
        /\ UNCHANGED <<home, node, account, dirPc, plan, fd>>
  BY DEF UserReplaces
<1>2. n \notin Installer /\ n \in Node \cup {None} /\ SafeParent \subseteq Parent
  BY DEF DataDirAssumption, Node
<1>3. /\ entry' \in [Parent -> Node \cup {None}] /\ entry'[p] = n
      /\ \A q \in Parent : q # p => entry'[q] = entry[q]
  BY <1>1, <1>2 DEF DataDirInv, DataDirTypeOK
<1>4. home' \in Parent \cup {None}
  BY <1>1 DEF DataDirInv, DataDirTypeOK
<1>5. /\ \A q \in SafeParent : entry'[q] = entry[q]
      /\ \A q \in Parent : entry'[q] \in Installer => entry'[q] = entry[q]
  BY <1>1, <1>2, <1>3
<1>6. QED
  BY <1>1, <1>3, <1>4, <1>5, ElsewhereInv

LEMMA StepDataDir ==
  ASSUME DataDirAssumption
  PROVE  DataDirInv /\ [DataDirNext]_dataDirVars => DataDirInv'
<1> SUFFICES ASSUME DataDirInv, [DataDirNext]_dataDirVars PROVE DataDirInv'
  OBVIOUS
<1>1. ASSUME NEW i \in Installer, Inspect(i) PROVE DataDirInv'
  BY <1>1, OpenParentInv, InspectionFailsInv, StatLeafInv, OpenLeafInv, CheckLeafInv DEF Inspect
<1>2. ASSUME NEW i \in Installer, EstablishFresh(i) PROVE DataDirInv'
  BY <1>2, MakeLeafInv, BindLeafInv, VerifyLeafInv, SetOwnerInv, InspectLeafInv, UnlinkInv
     DEF EstablishFresh
<1>3. ASSUME NEW i \in Installer, EnsureAccount(i) \/ Establish(i) \/ SetMode(i) \/ Kill(i)
      PROVE DataDirInv'
  BY <1>3, EnsureAccountInv, EstablishInv, SetModeInv, KillInv
<1>4. ASSUME NEW p \in Parent, UserReplaces(p) PROVE DataDirInv'
  BY <1>4, UserReplacesInv
<1>5. CASE UNCHANGED dataDirVars
  <2>1. UNCHANGED <<home, entry, node, account, dirPc, plan, fd>>
    BY <1>5 DEF dataDirVars
  <2>2. home' \in Parent \cup {None} /\ entry' \in [Parent -> Node \cup {None}]
    BY <2>1 DEF DataDirInv, DataDirTypeOK
  <2>3. QED
    BY <2>1, <2>2, ElsewhereInv
<1>6. QED
  BY <1>1, <1>2, <1>3, <1>4, <1>5, AncestorsChangeInv DEF DataDirNext

-----------------------------------------------------------------------------
LEMMA Invariance == DataDirAssumption => (DataDirSpec => []DataDirInv)
<1> SUFFICES ASSUME DataDirAssumption PROVE DataDirSpec => []DataDirInv
  OBVIOUS
<1>1. DataDirInit => DataDirInv
  BY InitDataDir
<1>2. DataDirInv /\ [DataDirNext]_dataDirVars => DataDirInv'
  BY StepDataDir
<1>3. QED
  BY <1>1, <1>2, PTL DEF DataDirSpec

(* A refusal that does not mention an incomplete cleanup has left nothing  *)
(* (RefusalLeavesNothing): inspectDataDir changes nothing and              *)
(* establishDataDir removes what it made.                                  *)
THEOREM RefusalsLeaveNothing == DataDirAssumption => (DataDirSpec => []RefusalLeavesNothing)
<1>1. DataDirInv => RefusalLeavesNothing
  <2> SUFFICES ASSUME DataDirInv, NEW i \in Installer, dirPc[i] = "refused", NEW p \in Parent
               PROVE  entry[p] # i
    BY DEF RefusalLeavesNothing
  <2>1. Owned(i)
    BY DEF DataDirInv, Good
  <2>2. QED
    BY <2>1 DEF Owned, Made
<1>2. QED
  BY <1>1, Invariance, PTL

(* An object of somebody else's never becomes the service's and never gets *)
(* another mode (NeverAdopts), whatever is renamed or replaced meanwhile.  *)
THEOREM AdoptsNothing == DataDirAssumption => (DataDirSpec => NeverAdopts)
<1> SUFFICES ASSUME DataDirAssumption PROVE DataDirSpec => NeverAdopts
  OBVIOUS
<1> DEFINE Own == \A n \in Node : node'[n] # node[n] => n \in Installer \/ node[n].owner = "service"
<1>1. ASSUME DataDirInv, [DataDirNext]_dataDirVars PROVE [Own]_dataDirVars
  <2> SUFFICES ASSUME DataDirNext, NEW n \in Node, node'[n] # node[n]
               PROVE  n \in Installer \/ node[n].owner = "service"
    BY <1>1
  <2>1. ASSUME NEW i \in Installer, SetMode(i) PROVE n \in Installer \/ node[n].owner = "service"
    <3>1. dirPc[i] = "chmod" /\ n = fd[i].leaf
      BY <2>1, <1>1 DEF SetMode, Refuse, CleanUp, Go, Tree, DataDirInv, DataDirTypeOK
    <3>2. Good(i) /\ plan[i] \in {"fresh", "existing"}
      BY <3>1, <1>1 DEF DataDirInv, DataDirTypeOK, Good, Planned
    <3>3. QED
      BY <3>1, <3>2 DEF Good, Opened, Holding, Made, Adopting
  <2>2. ASSUME NEW i \in Installer, SetOwner(i) PROVE n \in Installer
    <3>1. dirPc[i] = "chown" /\ n = fd[i].leaf
      BY <2>2, <1>1 DEF SetOwner, CleanUp, Go, Tree, DataDirInv, DataDirTypeOK
    <3>2. Good(i)
      BY <1>1 DEF DataDirInv
    <3>3. QED
      BY <3>1, <3>2 DEF Good, Holding, Made
  <2>3. ASSUME NEW i \in Installer, MakeLeaf(i) PROVE n \in Installer
    BY <2>3, <1>1 DEF MakeLeaf, Refuse, Tree, DataDirInv, DataDirTypeOK
  <2>4. CASE \A i \in Installer : ~SetMode(i) /\ ~SetOwner(i) /\ ~MakeLeaf(i)
    BY <2>4 DEF DataDirNext, Inspect, OpenParent, InspectionFails, StatLeaf, OpenLeaf, CheckLeaf,
                EnsureAccount, Establish, EstablishFresh, BindLeaf, VerifyLeaf, InspectLeaf, Unlink,
                Kill, Refuse, CleanUp, Tree, AncestorsChange, UserReplaces
  <2>5. QED
    BY <2>1, <2>2, <2>3, <2>4
<1>2. QED
  BY <1>1, Invariance, PTL DEF DataDirSpec, NeverAdopts

(* cleanupLeafError removes the directory of its own installation and no   *)
(* other (CleanupRemovesOwn).                                              *)
THEOREM RemovesOwn == DataDirAssumption => (DataDirSpec => CleanupRemovesOwn)
<1> SUFFICES ASSUME DataDirAssumption PROVE DataDirSpec => CleanupRemovesOwn
  OBVIOUS
<1> DEFINE Own == \A p \in SafeParent :
                    entry[p] # None /\ entry'[p] # entry[p] =>
                      /\ entry[p] \in Installer
                      /\ dirPc[entry[p]] \notin Final /\ dirPc'[entry[p]] = "refused"
<1>1. ASSUME DataDirInv, [DataDirNext]_dataDirVars PROVE [Own]_dataDirVars
  <2> SUFFICES ASSUME DataDirNext, NEW p \in SafeParent, entry[p] # None, entry'[p] # entry[p]
               PROVE  /\ entry[p] \in Installer
                      /\ dirPc[entry[p]] \notin Final /\ dirPc'[entry[p]] = "refused"
    BY <1>1
  <2>1. entry \in [Parent -> Node \cup {None}] /\ p \in Parent
    BY <1>1 DEF DataDirInv, DataDirTypeOK, DataDirAssumption
  <2>2. ASSUME NEW i \in Installer, MakeLeaf(i) PROVE FALSE
    BY <2>1, <2>2 DEF MakeLeaf, Leaf, Refuse, Tree
  <2>3. ASSUME NEW i \in Installer, Unlink(i)
        PROVE  /\ entry[p] \in Installer
               /\ dirPc[entry[p]] \notin Final /\ dirPc'[entry[p]] = "refused"
    <3>1. /\ dirPc[i] = "unlink" /\ dirPc' = [dirPc EXCEPT ![i] = "refused"] /\ p = fd[i].parent
      BY <2>1, <2>3 DEF Unlink, Go, Tree
    <3>2. entry[p] = i
      BY <1>1, <3>1 DEF DataDirInv, Good, Holding, Made
    <3>3. QED
      BY <1>1, <3>1, <3>2 DEF Final, DataDirInv, DataDirTypeOK
  <2>4. ASSUME NEW q \in Parent, UserReplaces(q) PROVE FALSE
    BY <2>1, <2>4 DEF UserReplaces
  <2>5. CASE /\ \A i \in Installer : ~MakeLeaf(i) /\ ~Unlink(i)
             /\ \A q \in Parent : ~UserReplaces(q)
    BY <2>5 DEF DataDirNext, Inspect, OpenParent, InspectionFails, StatLeaf, OpenLeaf, CheckLeaf,
                EnsureAccount, Establish, EstablishFresh, BindLeaf, VerifyLeaf, SetMode, SetOwner,
                InspectLeaf, Kill, Refuse, CleanUp, Tree, AncestorsChange
  <2>6. QED
    BY <2>2, <2>3, <2>4, <2>5
<1>2. QED
  BY <1>1, Invariance, PTL DEF DataDirSpec, CleanupRemovesOwn

(* The steps after which an installation goes on. *)
LEMMA GoesOn ==
  ASSUME DataDirInv, DataDirNext, NEW i \in Installer, dirPc[i] # "ok", dirPc'[i] = "ok"
  PROVE  \/ /\ dirPc[i] = "chmod" /\ plan[i] # "fresh" /\ UNCHANGED entry
            /\ node' = [node EXCEPT ![fd[i].leaf].mode = "private"]
         \/ dirPc[i] = "inspect" /\ UNCHANGED <<entry, node>>
<1>1. dirPc \in [Installer -> Place]
  BY DEF DataDirInv, DataDirTypeOK, Place
<1>2. ASSUME NEW j \in Installer,
             Inspect(j) \/ EnsureAccount(j) \/ Establish(j) \/ Kill(j)
      PROVE  FALSE
  BY <1>1, <1>2 DEF Inspect, OpenParent, InspectionFails, StatLeaf, OpenLeaf, CheckLeaf,
                    EnsureAccount, Establish, Kill, Refuse, Go
<1>3. ASSUME NEW j \in Installer,
             MakeLeaf(j) \/ BindLeaf(j) \/ VerifyLeaf(j) \/ SetOwner(j) \/ Unlink(j)
      PROVE  FALSE
  BY <1>1, <1>3 DEF MakeLeaf, BindLeaf, VerifyLeaf, SetOwner, Unlink, CleanUp, Refuse, Go
<1>4. ASSUME NEW j \in Installer, InspectLeaf(j)
      PROVE  dirPc[i] = "inspect" /\ UNCHANGED <<entry, node>>
  BY <1>1, <1>4 DEF InspectLeaf, CleanUp, Go, Tree
<1>5. ASSUME NEW j \in Installer, SetMode(j)
      PROVE  /\ dirPc[i] = "chmod" /\ plan[i] # "fresh" /\ UNCHANGED entry
             /\ node' = [node EXCEPT ![fd[i].leaf].mode = "private"]
  BY <1>1, <1>5 DEF SetMode, CleanUp, Refuse, Go
<1>6. CASE AncestorsChange \/ \E p \in Parent : UserReplaces(p)
  BY <1>6 DEF AncestorsChange, UserReplaces
<1>7. QED
  BY <1>2, <1>3, <1>4, <1>5, <1>6 DEF DataDirNext, EstablishFresh

(* establishDataDir succeeds with a directory of the service below the     *)
(* safe parent that was inspected (Established).                           *)
THEOREM ServiceHasDirectory == DataDirAssumption => (DataDirSpec => Established)
<1> SUFFICES ASSUME DataDirAssumption PROVE DataDirSpec => Established
  OBVIOUS
<1> DEFINE Sound(i) ==
      /\ node'[fd[i].leaf] = [kind |-> "dir", owner |-> "service", mode |-> "private"]
      /\ fd[i].parent \in SafeParent
      /\ \/ entry[fd[i].parent] = fd[i].leaf
         \/ plan[i] = "existing" /\ fd[i].leaf \in Installer /\ dirPc[fd[i].leaf] = "refused"
<1>1. ASSUME DataDirInv, DataDirNext, NEW i \in Installer, dirPc[i] # "ok", dirPc'[i] = "ok"
      PROVE  Sound(i)
  <2>1. Good(i) /\ i \in Node
    BY <1>1 DEF DataDirInv, Node
  <2>2. CASE /\ dirPc[i] = "chmod" /\ plan[i] # "fresh"
             /\ node' = [node EXCEPT ![fd[i].leaf].mode = "private"]
    <3>1. Adopting(i)
      BY <1>1, <2>1, <2>2 DEF DataDirInv, DataDirTypeOK, Good, Planned, Adopting
    <3>2. /\ fd[i].leaf \in Node /\ node[fd[i].leaf].kind = "dir"
          /\ node[fd[i].leaf].owner = "service" /\ fd[i].parent \in SafeParent
      BY <2>1, <2>2, <3>1 DEF Good, Opened, Placed
    <3>3. /\ node' \in [Node -> Object]
          /\ node'[fd[i].leaf].kind = "dir" /\ node'[fd[i].leaf].owner = "service"
          /\ node'[fd[i].leaf].mode = "private"
      BY <1>1, <2>2, <3>2, WithMode
    <3>4. node'[fd[i].leaf] = [kind |-> "dir", owner |-> "service", mode |-> "private"]
      BY <3>2, <3>3 DEF Object
    <3>5. QED
      BY <2>1, <3>1, <3>2, <3>4 DEF Good, Still, Adopting
  <2>3. CASE dirPc[i] = "inspect" /\ UNCHANGED <<entry, node>>
    <3>1. /\ fd[i].leaf = i /\ entry[fd[i].parent] = i /\ fd[i].parent \in SafeParent
          /\ node[i].kind = "dir" /\ node[i].mode = "private" /\ node[i].owner = "service"
      BY <2>1, <2>3 DEF Good, Opened, Holding, Made, Ready, Placed
    <3>2. node[i] \in Object
      BY <1>1, <2>1 DEF DataDirInv, DataDirTypeOK
    <3>3. node[i] = [kind |-> "dir", owner |-> "service", mode |-> "private"]
      BY <3>1, <3>2 DEF Object
    <3>4. QED
      BY <2>3, <3>1, <3>3
  <2>4. QED
    BY <1>1, <2>2, <2>3, GoesOn
<1>2. ASSUME DataDirInv, [DataDirNext]_dataDirVars
      PROVE  [\A i \in Installer : dirPc[i] # "ok" /\ dirPc'[i] = "ok" => Sound(i)]_dataDirVars
  BY <1>1, <1>2
<1>3. QED
  BY <1>2, Invariance, PTL DEF DataDirSpec, Established

=============================================================================
