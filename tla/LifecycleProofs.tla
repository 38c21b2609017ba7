-------------------------- MODULE LifecycleProofs ---------------------------
(***************************************************************************)
(* Proofs about Lifecycle, for every set of versions and units and every   *)
(* number of interrupts.  What a command has done is known from the calls  *)
(* it still has to make, so the invariant goes through its list call by    *)
(* call: a stage says which calls are left, and what the ones before have  *)
(* made of the machine the command found.  A service of a version that is  *)
(* not healthy may crash at any stage; what a stage says of the activity   *)
(* is therefore said of healthy versions.                                  *)
(***************************************************************************)
EXTENDS Lifecycle, SequenceTheorems, TLAPS

(* What is active is some version, and nothing else runs. *)
Sound(m) == m \in Machine /\ (m.active = "active" <=> m.running # None)

-----------------------------------------------------------------------------
(* The lists of calls, from each of their calls on. *)

Cons(call, calls) == <<call>> \o calls
One(call) == Cons(call, <<>>)

Final == One("drop preinstall")

Activate(p, rest) ==
  IF p.active = "active" THEN Cons("reset-failed", Cons("restart", rest)) ELSE Cons("stop", rest)

EnableAgain(p, rest) ==
  IF p.enabled = "enabled" THEN Cons("enable", Activate(p, rest))
  ELSE IF p.enabled = "enabled-runtime" THEN Cons("enable --runtime", Activate(p, rest))
  ELSE Activate(p, rest)

Afresh == Cons("enable", Cons("reset-failed", Cons("restart", Final)))

Bring(p) == IF p.unit = None THEN Afresh ELSE Cons("disable", EnableAgain(p, Final))

Load(p, u) == IF u # p.unit THEN Cons("daemon-reload", Bring(p)) ELSE Bring(p)

Write(p, u) == Cons("write unit", Cons("write binary", Load(p, u)))

BringBack(p) == IF p.unit # None THEN Cons("disable", EnableAgain(p, <<>>)) ELSE <<>>

ReloadBack(p) == Cons("daemon-reload", BringBack(p))
UnitBack(p) == Cons("restore unit", ReloadBack(p))
PutBack(p) == Cons("restore binary", Cons("drop preinstall", UnitBack(p)))

Again(rest) == Cons("reset-failed", Cons("restart", Cons("verify", rest)))
Try(p) == IF p.active = "active" THEN Again(<<>>) ELSE <<>>
Revert == Cons("copy rollback", Again(One("forget")))

Run(p) ==
  IF p.marker = "active" THEN Cons("restart", Cons("verify", One("forget"))) ELSE One("forget")

-----------------------------------------------------------------------------
(* The stages of an installation. *)

(* It runs version v, unless that can crash. *)
Runs(v) == v \in Healthy => (machine.active = "active" /\ machine.running = v)

RunsNoOther(v) == machine.active = "active" => machine.running = v

(* What may still be needed to put the executable back. *)
Keepsake == prior.binary # None => machine.preinstall = prior.binary

Written == machine.unit = wanted.unit /\ machine.binary = wanted.version

NothingToDo ==
  /\ Same(machine, wanted.version, wanted.unit)
  /\ machine.enabled = prior.enabled
  /\ Steady(prior) => machine.active = prior.active /\ Steady(machine)
  /\ todo = <<>>

Keeping ==
  /\ machine.binary = prior.binary /\ prior.binary # None
  /\ todo = Cons("keep preinstall", Write(prior, wanted.unit))

WritingUnit == Keepsake /\ todo = Write(prior, wanted.unit)

WritingBinary ==
  /\ Keepsake /\ machine.unit = wanted.unit
  /\ todo = Cons("write binary", Load(prior, wanted.unit))

Loading ==
  /\ Keepsake /\ Written
  /\ todo = Cons("daemon-reload", Bring(prior))

StartingAfresh ==
  /\ Keepsake /\ Written /\ ~Installed(prior)
  /\ \/ todo = Afresh
     \/ todo = Cons("reset-failed", Cons("restart", Final))
     \/ todo = Cons("restart", Final)

(* The service has the enablement and the activity it had. *)
Settled(v) ==
  Installed(prior) =>
    /\ machine.enabled = prior.enabled
    /\ prior.active = "active" => Runs(v)

Finishing == Written /\ Settled(wanted.version) /\ todo \in {Final, <<>>}

(* The installation and its way back both bring the service to the         *)
(* enablement and the activity it had.                                     *)
Rest == IF phase = "forward" THEN Final ELSE <<>>

InPlace ==
  IF phase = "forward" THEN Written /\ Keepsake
  ELSE machine.unit = prior.unit /\ machine.binary = prior.binary /\ machine.loaded = prior.unit

Disabling ==
  /\ flawed \/ InPlace
  /\ todo = Cons("disable", EnableAgain(prior, Rest))

Enabling ==
  /\ flawed \/ InPlace
  /\ \/ prior.enabled = "enabled" /\ todo = Cons("enable", Activate(prior, Rest))
     \/ prior.enabled = "enabled-runtime" /\ todo = Cons("enable --runtime", Activate(prior, Rest))

Activating ==
  /\ flawed \/ (InPlace /\ machine.enabled = prior.enabled)
  /\ \/ todo = Activate(prior, Rest)
     \/ prior.active = "active" /\ todo = Cons("restart", Rest)

Resuming == Installed(prior) /\ (Disabling \/ Enabling \/ Activating)

Installing ==
  \/ NothingToDo \/ Keeping \/ WritingUnit \/ WritingBinary \/ Loading \/ StartingAfresh
  \/ Finishing

(* The stages of its way back. *)
Neutralizing ==
  /\ Keepsake
  /\ \/ todo = Cons("neutralize stop", Cons("neutralize disable", PutBack(prior)))
     \/ todo = Cons("neutralize disable", PutBack(prior))
     \/ todo = PutBack(prior)

PuttingBack ==
  /\ flawed \/ machine.binary = prior.binary
  /\ \/ todo = Cons("drop preinstall", UnitBack(prior))
     \/ todo = UnitBack(prior)

Reloading ==
  /\ flawed \/ (machine.binary = prior.binary /\ machine.unit = prior.unit)
  /\ todo = ReloadBack(prior)

Restored ==
  /\ flawed \/ (InPlace /\ Settled(prior.binary))
  /\ todo = <<>>

Restoring == Neutralizing \/ PuttingBack \/ Reloading \/ Restored

(* A service that was not running is not started. *)
Quiet == (Installed(prior) /\ prior.active = "inactive") => machine.active = "inactive"

InstallInv ==
  /\ wanted.version \in Version /\ wanted.unit \in Unit
  /\ Installed(prior) => prior.active # "failed"
  /\ Quiet
  /\ Resuming \/ (IF phase = "forward" THEN Installing ELSE Restoring)

-----------------------------------------------------------------------------
(* The stages of an update, and of its way back. *)

Saved ==
  prior.binary # None => machine.rollback = prior.binary /\ machine.marker = prior.active

Untouched ==
  /\ machine.binary = prior.binary
  /\ prior.active = "active" => Runs(prior.binary)
  /\ \/ /\ prior.binary # None
        /\ todo = Cons("keep rollback", Cons("write marker", Cons("write binary", Try(prior))))
     \/ /\ prior.binary # None /\ machine.rollback = prior.binary
        /\ todo = Cons("write marker", Cons("write binary", Try(prior)))
     \/ Saved /\ todo = Cons("write binary", Try(prior))

Trying ==
  /\ machine.binary = wanted.version /\ Saved
  /\ IF prior.active = "active"
     THEN \/ todo \in {Again(<<>>), Cons("restart", One("verify"))}
          \/ todo \in {One("verify"), <<>>} /\ Runs(wanted.version)
     ELSE todo = <<>>

Updating ==
  /\ prior.active # "active" => machine.active = prior.active
  /\ Untouched \/ Trying

Reverting ==
  /\ prior.active = "active"
  /\ \/ machine.rollback = prior.binary /\ todo \in {Cons("stop", Revert), Revert}
     \/ /\ machine.binary = prior.binary
        /\ \/ todo = Again(One("forget"))
           \/ todo = Cons("restart", Cons("verify", One("forget")))
           \/ Runs(prior.binary) /\ todo \in {Cons("verify", One("forget")), One("forget"), <<>>}

UpdateInv ==
  Steady(prior) =>
    /\ machine.unit = prior.unit /\ machine.enabled = prior.enabled
    /\ IF phase = "forward" THEN Updating ELSE Reverting

-----------------------------------------------------------------------------
(* The stages of a rollback. *)

Exchanging ==
  /\ machine.rollback = prior.rollback
  /\ \/ todo = Cons("reset-failed", Cons("set aside", Cons("swap in", Run(prior))))
     \/ todo = Cons("set aside", Cons("swap in", Run(prior)))
     \/ todo = Cons("swap in", Run(prior))

Exchanged ==
  /\ machine.binary = prior.rollback
  /\ \/ todo = Run(prior)
     \/ /\ prior.marker = "active" => Runs(prior.rollback) /\ RunsNoOther(prior.rollback)
        /\ todo \in {Cons("verify", One("forget")), One("forget"), <<>>}

(* It does not start a service that did not run before the update. *)
Idle ==
  (prior.marker # "active" /\ prior.active # "active") => machine.active # "active"

RollbackInv ==
  /\ phase = "forward" /\ machine.enabled = prior.enabled /\ Idle
  /\ Exchanging \/ Exchanged

-----------------------------------------------------------------------------
Known ==
  /\ Sound(machine) /\ Sound(prior)
  /\ wanted \in [version : Version \cup {None}, unit : Unit \cup {None}]
  /\ interrupts \in 0..MaxInterrupts
  /\ op \in {"none", "install", "update", "rollback", "uninstall"} \cup Verbs
  /\ phase \in {"forward", "recovery"} /\ flawed \in BOOLEAN
  /\ phase = "forward" => ~flawed
  /\ todo \in Seq(Call)

IInv ==
  /\ Known
  /\ op = "none" => phase = "forward"
  /\ op = "install" => InstallInv
  /\ op = "update" => UpdateInv
  /\ op = "rollback" => RollbackInv

-----------------------------------------------------------------------------
(* Lists. *)

LEMMA ConsFacts ==
  ASSUME NEW c \in Call, NEW s \in Seq(Call)
  PROVE  /\ Cons(c, s) \in Seq(Call) /\ Cons(c, s) # <<>>
         /\ Head(Cons(c, s)) = c /\ Tail(Cons(c, s)) = s
<1> DEFINE l == Cons(c, s)
<1>1. <<c>> \in Seq(Call) /\ Len(<<c>>) = 1 /\ <<c>>[1] = c
  OBVIOUS
<1>2. /\ l \in Seq(Call) /\ Len(l) = 1 + Len(s)
      /\ \A i \in 1..(1 + Len(s)) : l[i] = IF i <= 1 THEN <<c>>[i] ELSE s[i - 1]
  BY <1>1, ConcatProperties DEF Cons
<1>3. Len(s) \in Nat /\ Len(<<>>) = 0
  OBVIOUS
<1>4. l # <<>>
  BY <1>2, <1>3
<1>5. Head(l) = c
  BY <1>1, <1>2, <1>3, <1>4
<1>6. /\ Tail(l) \in Seq(Call) /\ Len(Tail(l)) = Len(s)
      /\ \A i \in 1..Len(s) : Tail(l)[i] = s[i]
  <2>1. /\ Tail(l) \in Seq(Call) /\ Len(Tail(l)) = Len(l) - 1
        /\ \A i \in 1..Len(Tail(l)) : Tail(l)[i] = l[i + 1]
    BY <1>2, <1>4, HeadTailProperties
  <2> QED
    BY <1>2, <1>3, <2>1
<1>7. Tail(l) = s
  BY <1>6, SeqEqual
<1> QED
  BY <1>2, <1>4, <1>5, <1>7

LEMMA OneFacts ==
  /\ <<>> \in Seq(Call)
  /\ \A c \in Call :
       /\ One(c) \in Seq(Call) /\ One(c) # <<>> /\ Head(One(c)) = c /\ Tail(One(c)) = <<>>
       /\ One(c) = <<c>>
<1>1. <<>> \in Seq(Call)
  OBVIOUS
<1>2. ASSUME NEW c \in Call PROVE One(c) = <<c>>
  BY ConcatEmptySeq DEF One, Cons
<1> QED
  BY <1>1, <1>2, ConsFacts DEF One

Join(x, y) == x \o y

LEMMA JoinFacts ==
  /\ \A x, y \in Seq(Call) : Join(x, y) \in Seq(Call)
  /\ \A x, y, z \in Seq(Call) : Join(Join(x, y), z) = Join(x, Join(y, z))
  /\ \A x \in Seq(Call) : Join(<<>>, x) = x /\ Join(x, <<>>) = x
  /\ \A c \in Call : <<c>> \in Seq(Call)
  /\ \A c \in Call, x \in Seq(Call) : Join(<<c>>, x) = Cons(c, x)
<1>1. ASSUME NEW x \in Seq(Call), NEW y \in Seq(Call) PROVE Join(x, y) \in Seq(Call)
  BY ConcatProperties DEF Join
<1>2. ASSUME NEW x \in Seq(Call), NEW y \in Seq(Call), NEW z \in Seq(Call)
      PROVE  Join(Join(x, y), z) = Join(x, Join(y, z))
  BY ConcatAssociative DEF Join
<1>3. ASSUME NEW x \in Seq(Call) PROVE Join(<<>>, x) = x /\ Join(x, <<>>) = x
  BY ConcatEmptySeq DEF Join
<1>4. \A c \in Call : <<c>> \in Seq(Call)
  OBVIOUS
<1>5. \A c \in Call, x \in Seq(Call) : Join(<<c>>, x) = Cons(c, x)
  BY DEF Join, Cons
<1> QED
  BY <1>1, <1>2, <1>3, <1>4, <1>5

(* How a list that is written down begins. *)
LEMMA UnfoldTwo ==
  ASSUME NEW a \in Call, NEW b \in Call, NEW s \in Seq(Call)
  PROVE  <<a, b>> \in Seq(Call) /\ Join(<<a, b>>, s) = Cons(a, Cons(b, s))
<1>1. <<a>> \in Seq(Call) /\ <<b>> \in Seq(Call) /\ <<a, b>> \in Seq(Call)
  OBVIOUS
<1>2. /\ Join(<<a>>, <<b>>) \in Seq(Call) /\ Len(Join(<<a>>, <<b>>)) = 2
      /\ \A i \in 1..2 :
           Join(<<a>>, <<b>>)[i] = IF i <= 1 THEN <<a>>[i] ELSE <<b>>[i - 1]
  BY <1>1, ConcatProperties DEF Join
<1>3. <<a, b>> = Join(<<a>>, <<b>>)
  <2>1. Join(<<a>>, <<b>>)[1] = a /\ Join(<<a>>, <<b>>)[2] = b
    BY <1>2
  <2> QED
    BY <1>1, <1>2, <2>1, SeqEqual
<1> DEFINE x == <<a>>
            y == <<b>>
            l == <<a, b>>
<1>4. Join(x, Join(y, s)) = Cons(a, Cons(b, s))
  <2>1. Join(y, s) = Cons(b, s) /\ Cons(b, s) \in Seq(Call)
    BY JoinFacts, ConsFacts
  <2> QED
    BY <2>1, JoinFacts
<1>5. x \in Seq(Call) /\ y \in Seq(Call) /\ l = Join(x, y) /\ l \in Seq(Call)
  BY <1>1, <1>3
<1> HIDE DEF x, y, l
<1>6. Join(l, s) = Cons(a, Cons(b, s))
  BY <1>4, <1>5, JoinFacts
<1> QED
  BY <1>5, <1>6 DEF l

LEMMA UnfoldThree ==
  ASSUME NEW a \in Call, NEW b \in Call, NEW c \in Call, NEW s \in Seq(Call)
  PROVE  /\ <<a, b, c>> \in Seq(Call)
         /\ Join(<<a, b, c>>, s) = Cons(a, Cons(b, Cons(c, s)))
<1>1. <<a, b>> \in Seq(Call) /\ <<c>> \in Seq(Call) /\ <<a, b, c>> \in Seq(Call)
  OBVIOUS
<1>2. /\ Join(<<a, b>>, <<c>>) \in Seq(Call) /\ Len(Join(<<a, b>>, <<c>>)) = 3
      /\ \A i \in 1..3 :
           Join(<<a, b>>, <<c>>)[i] = IF i <= 2 THEN <<a, b>>[i] ELSE <<c>>[i - 2]
  BY <1>1, ConcatProperties DEF Join
<1>3. <<a, b, c>> = Join(<<a, b>>, <<c>>)
  <2>1. /\ Join(<<a, b>>, <<c>>)[1] = a /\ Join(<<a, b>>, <<c>>)[2] = b
        /\ Join(<<a, b>>, <<c>>)[3] = c
    BY <1>2
  <2> QED
    BY <1>1, <1>2, <2>1, SeqEqual
<1> DEFINE x == <<a, b>>
            y == <<c>>
            l == <<a, b, c>>
<1>4. Join(x, Join(y, s)) = Cons(a, Cons(b, Cons(c, s)))
  <2>1. Join(y, s) = Cons(c, s) /\ Cons(c, s) \in Seq(Call)
    BY JoinFacts, ConsFacts
  <2> QED
    BY <2>1, UnfoldTwo
<1>5. x \in Seq(Call) /\ y \in Seq(Call) /\ l = Join(x, y) /\ l \in Seq(Call)
  BY <1>1, <1>3
<1> HIDE DEF x, y, l
<1>6. Join(l, s) = Cons(a, Cons(b, Cons(c, s)))
  BY <1>4, <1>5, JoinFacts
<1> QED
  BY <1>5, <1>6 DEF l

LEMMA UnfoldSix ==
  ASSUME NEW a \in Call, NEW b \in Call, NEW c \in Call,
         NEW d \in Call, NEW e \in Call, NEW f \in Call, NEW s \in Seq(Call)
  PROVE  Join(<<a, b, c, d, e, f>>, s)
           = Cons(a, Cons(b, Cons(c, Cons(d, Cons(e, Cons(f, s))))))
<1> DEFINE x == <<a, b, c>>
           y == <<d, e, f>>
           l == <<a, b, c, d, e, f>>
<1>1. /\ x \in Seq(Call) /\ Len(x) = 3 /\ x[1] = a /\ x[2] = b /\ x[3] = c
      /\ y \in Seq(Call) /\ Len(y) = 3 /\ y[1] = d /\ y[2] = e /\ y[3] = f
  OBVIOUS
<1>2. /\ l \in Seq(Call) /\ Len(l) = 6
      /\ l[1] = a /\ l[2] = b /\ l[3] = c /\ l[4] = d /\ l[5] = e /\ l[6] = f
  OBVIOUS
<1>3. Join(x, Join(y, s)) = Cons(a, Cons(b, Cons(c, Cons(d, Cons(e, Cons(f, s))))))
  <2>1. Join(y, s) = Cons(d, Cons(e, Cons(f, s)))
    BY UnfoldThree
  <2>2. Cons(d, Cons(e, Cons(f, s))) \in Seq(Call)
    BY ConsFacts
  <2> QED
    BY <2>1, <2>2, UnfoldThree
<1> HIDE DEF x, y, l
<1>4. l = Join(x, y)
  <2>1. /\ Join(x, y) \in Seq(Call) /\ Len(Join(x, y)) = 6
        /\ \A i \in 1..6 : Join(x, y)[i] = IF i <= 3 THEN x[i] ELSE y[i - 3]
    <3>1. /\ Join(x, y) \in Seq(Call) /\ Len(Join(x, y)) = Len(x) + Len(y)
          /\ \A i \in 1..Len(x) + Len(y) :
               Join(x, y)[i] = IF i <= Len(x) THEN x[i] ELSE y[i - Len(x)]
      BY <1>1, ConcatProperties, Zenon DEF Join
    <3> QED
      BY <1>1, <3>1
  <2>2. \A i \in 1..6 : l[i] = Join(x, y)[i]
    BY <1>1, <1>2, <2>1
  <2> QED
    BY <1>2, <2>1, <2>2, SeqEqual
<1>5. Join(l, s) = Join(x, Join(y, s))
  BY <1>1, <1>4, JoinFacts
<1> QED
  BY <1>3, <1>5 DEF l

(* Every list is one. *)
LEMMA ListsTyped ==
  /\ Final \in Seq(Call) /\ Afresh \in Seq(Call) /\ Revert \in Seq(Call)
  /\ \A r \in Seq(Call) : Again(r) \in Seq(Call)
  /\ \A p : \A r \in Seq(Call) :
       Activate(p, r) \in Seq(Call) /\ EnableAgain(p, r) \in Seq(Call)
  /\ \A p : /\ Bring(p) \in Seq(Call) /\ BringBack(p) \in Seq(Call)
            /\ ReloadBack(p) \in Seq(Call) /\ UnitBack(p) \in Seq(Call)
            /\ PutBack(p) \in Seq(Call) /\ Try(p) \in Seq(Call) /\ Run(p) \in Seq(Call)
  /\ \A p, u : Load(p, u) \in Seq(Call) /\ Write(p, u) \in Seq(Call)
<1>1. Final \in Seq(Call) /\ One("verify") \in Seq(Call) /\ One("forget") \in Seq(Call)
  BY OneFacts DEF Final, Call
<1>2. \A c \in Call, s \in Seq(Call) : Cons(c, s) \in Seq(Call)
  BY ConsFacts
<1>3. ASSUME NEW s \in Seq(Call)
      PROVE  /\ Cons("reset-failed", s) \in Seq(Call) /\ Cons("restart", s) \in Seq(Call)
             /\ Cons("stop", s) \in Seq(Call) /\ Cons("enable", s) \in Seq(Call)
             /\ Cons("enable --runtime", s) \in Seq(Call) /\ Cons("disable", s) \in Seq(Call)
             /\ Cons("daemon-reload", s) \in Seq(Call) /\ Cons("write unit", s) \in Seq(Call)
             /\ Cons("write binary", s) \in Seq(Call) /\ Cons("restore unit", s) \in Seq(Call)
             /\ Cons("restore binary", s) \in Seq(Call) /\ Cons("verify", s) \in Seq(Call)
             /\ Cons("drop preinstall", s) \in Seq(Call) /\ Cons("copy rollback", s) \in Seq(Call)
  BY <1>2 DEF Call
<1>4. \A r \in Seq(Call) : Again(r) \in Seq(Call)
  BY <1>3 DEF Again
<1>5. Afresh \in Seq(Call) /\ Revert \in Seq(Call)
  BY <1>1, <1>3, <1>4 DEF Afresh, Revert
<1>6. \A p : \A r \in Seq(Call) : Activate(p, r) \in Seq(Call)
  BY <1>3 DEF Activate
<1>7. \A p : \A r \in Seq(Call) : EnableAgain(p, r) \in Seq(Call)
  BY <1>3, <1>6 DEF EnableAgain
<1>8. \A p : Bring(p) \in Seq(Call) /\ BringBack(p) \in Seq(Call)
  BY <1>1, <1>3, <1>5, <1>7, OneFacts DEF Bring, BringBack
<1>9. \A p : ReloadBack(p) \in Seq(Call) /\ UnitBack(p) \in Seq(Call) /\ PutBack(p) \in Seq(Call)
  BY <1>3, <1>8 DEF ReloadBack, UnitBack, PutBack
<1>10. \A p : Try(p) \in Seq(Call) /\ Run(p) \in Seq(Call)
  BY <1>1, <1>3, <1>4, OneFacts DEF Try, Run
<1>11. \A p, u : Load(p, u) \in Seq(Call)
  BY <1>3, <1>8 DEF Load
<1>12. \A p, u : Write(p, u) \in Seq(Call)
  BY <1>3, <1>11 DEF Write
<1> QED
  BY <1>1, <1>4, <1>5, <1>6, <1>7, <1>8, <1>9, <1>10, <1>11, <1>12

(* The lists of the commands are these lists. *)
LEMMA EnableStepsBegin ==
  ASSUME NEW p, NEW r \in Seq(Call)
  PROVE  Join(Join(EnableSteps(p.enabled), ActiveSteps(p.active)), r)
           = Cons("disable", EnableAgain(p, r))
<1> DEFINE word == p.enabled
           a == <<"disable">>
           b == When(word = "enabled", <<"enable">>)
           c == When(word = "enabled-runtime", <<"enable --runtime">>)
           d == ActiveSteps(p.active)
           t == Activate(p, r)
<1>1. a \in Seq(Call) /\ b \in Seq(Call) /\ c \in Seq(Call)
  BY JoinFacts, OneFacts DEF When, Call
<1>2. d \in Seq(Call) /\ Join(d, r) = t
  <2>1. CASE p.active = "active"
    <3>1. "reset-failed" \in Call /\ "restart" \in Call
      BY DEF Call
    <3>2. /\ <<"reset-failed", "restart">> \in Seq(Call)
          /\ Join(<<"reset-failed", "restart">>, r) = Cons("reset-failed", Cons("restart", r))
      BY <3>1, UnfoldTwo
    <3> QED
      BY <2>1, <3>2 DEF ActiveSteps, Activate
  <2>2. CASE p.active # "active"
    BY <2>2, JoinFacts DEF ActiveSteps, Activate, Call
  <2> QED
    BY <2>1, <2>2
<1>3. t \in Seq(Call)
  BY ListsTyped
<1>4. /\ Join(c, t) = IF word = "enabled-runtime" THEN Cons("enable --runtime", t) ELSE t
      /\ Join(c, t) \in Seq(Call)
  BY <1>1, <1>3, JoinFacts DEF When, Call
<1>5. Join(b, Join(c, t)) = IF word = "enabled" THEN Cons("enable", Join(c, t)) ELSE Join(c, t)
  BY <1>4, JoinFacts DEF When, Call
<1>6. Join(b, Join(c, t)) = EnableAgain(p, r)
  BY <1>4, <1>5 DEF EnableAgain
<1>7. Join(a, EnableAgain(p, r)) = Cons("disable", EnableAgain(p, r))
  BY ListsTyped, JoinFacts DEF Call
<1>8. EnableSteps(p.enabled) = Join(Join(a, b), c)
  BY DEF EnableSteps, Join
<1> HIDE DEF a, b, c, d, t
<1>9. Join(Join(Join(Join(a, b), c), d), r) = Join(a, Join(b, Join(c, Join(d, r))))
  <2>1. Join(a, b) \in Seq(Call) /\ Join(c, t) \in Seq(Call) /\ Join(Join(a, b), c) \in Seq(Call)
    BY <1>1, <1>3, JoinFacts
  <2>2. Join(Join(Join(Join(a, b), c), d), r) = Join(Join(Join(a, b), c), Join(d, r))
    BY <1>1, <1>2, <2>1, JoinFacts
  <2>3. Join(Join(Join(a, b), c), t) = Join(Join(a, b), Join(c, t))
    BY <1>1, <1>3, <2>1, JoinFacts
  <2>4. Join(Join(a, b), Join(c, t)) = Join(a, Join(b, Join(c, t)))
    BY <1>1, <2>1, JoinFacts
  <2> QED
    BY <1>2, <2>2, <2>3, <2>4
<1> QED
  BY <1>2, <1>6, <1>7, <1>8, <1>9 DEF d

LEMMA StepsTyped ==
  ASSUME NEW word, NEW other
  PROVE  EnableSteps(word) \in Seq(Call) /\ ActiveSteps(other) \in Seq(Call)
<1>1. /\ <<"disable">> \in Seq(Call) /\ When(word = "enabled", <<"enable">>) \in Seq(Call)
      /\ When(word = "enabled-runtime", <<"enable --runtime">>) \in Seq(Call)
  BY JoinFacts, OneFacts DEF When, Call
<1>2. EnableSteps(word) \in Seq(Call)
  BY <1>1, ConcatProperties DEF EnableSteps
<1>3. ActiveSteps(other) \in Seq(Call)
  <2>1. "reset-failed" \in Call /\ "restart" \in Call /\ "stop" \in Call
    BY DEF Call
  <2> QED
    BY <2>1 DEF ActiveSteps
<1> QED
  BY <1>2, <1>3

(* A chain of lists is read from its end. *)
LEMMA JoinFive ==
  ASSUME NEW a \in Seq(Call), NEW b \in Seq(Call), NEW c \in Seq(Call),
         NEW d \in Seq(Call), NEW e \in Seq(Call)
  PROVE  /\ Join(Join(Join(a, b), c), d) = Join(a, Join(b, Join(c, d)))
         /\ Join(Join(Join(Join(a, b), c), d), e) = Join(a, Join(b, Join(c, Join(d, e))))
<1>1. Join(a, b) \in Seq(Call) /\ Join(Join(a, b), c) \in Seq(Call) /\ Join(d, e) \in Seq(Call)
  BY JoinFacts
<1>2. \A s \in Seq(Call) : Join(Join(Join(a, b), c), s) = Join(a, Join(b, Join(c, s)))
  <2> SUFFICES ASSUME NEW s \in Seq(Call)
               PROVE  Join(Join(Join(a, b), c), s) = Join(a, Join(b, Join(c, s)))
    OBVIOUS
  <2>1. Join(Join(Join(a, b), c), s) = Join(Join(a, b), Join(c, s)) /\ Join(c, s) \in Seq(Call)
    BY <1>1, JoinFacts
  <2> QED
    BY <2>1, JoinFacts
<1>3. Join(Join(Join(Join(a, b), c), d), e) = Join(Join(Join(a, b), c), Join(d, e))
  BY <1>1, JoinFacts
<1> QED
  BY <1>1, <1>2, <1>3

LEMMA InstallBegins ==
  ASSUME NEW p, NEW u
  PROVE  Install(p, u) = IF p.binary # None THEN Cons("keep preinstall", Write(p, u))
                                            ELSE Write(p, u)
<1> DEFINE a == When(p.binary # None, <<"keep preinstall">>)
           b == <<"write unit", "write binary">>
           c == When(u # p.unit, <<"daemon-reload">>)
           resumed == Join(EnableSteps(p.enabled), ActiveSteps(p.active))
           d == IF p.unit = None THEN <<"enable", "reset-failed", "restart">> ELSE resumed
           e == <<"drop preinstall">>
<1>1. a \in Seq(Call) /\ c \in Seq(Call) /\ e \in Seq(Call) /\ e = Final
  BY JoinFacts, OneFacts DEF When, Call, Final
<1>2. b \in Seq(Call) /\ Join(b, Load(p, u)) = Write(p, u)
  <2>1. "write unit" \in Call /\ "write binary" \in Call /\ Load(p, u) \in Seq(Call)
    BY ListsTyped DEF Call
  <2> QED
    BY <2>1, UnfoldTwo DEF Write
<1>3. /\ "enable" \in Call /\ "reset-failed" \in Call /\ "restart" \in Call
      /\ Final \in Seq(Call)
  BY ListsTyped DEF Call
<1>4. d \in Seq(Call) /\ Join(d, Final) = Bring(p)
  <2>1. CASE p.unit = None
    <3>1. /\ <<"enable", "reset-failed", "restart">> \in Seq(Call)
          /\ Join(<<"enable", "reset-failed", "restart">>, Final) = Afresh
      BY <1>3, UnfoldThree DEF Afresh
    <3> QED
      BY <2>1, <3>1 DEF Bring
  <2>2. CASE p.unit # None
    <3>1. EnableSteps(p.enabled) \in Seq(Call) /\ ActiveSteps(p.active) \in Seq(Call)
      BY StepsTyped
    <3>2. resumed \in Seq(Call)
      BY <3>1, JoinFacts
    <3>3. Join(resumed, Final) = Bring(p)
      BY <1>3, <2>2, EnableStepsBegin DEF Bring
    <3> QED
      BY <2>2, <3>2, <3>3
  <2> QED
    BY <2>1, <2>2
<1>5. Join(c, Bring(p)) = Load(p, u)
  <2>1. Bring(p) \in Seq(Call) /\ "daemon-reload" \in Call
    BY ListsTyped DEF Call
  <2> QED
    BY <2>1, JoinFacts DEF When, Load
<1>7. Join(a, Write(p, u)) = IF p.binary # None THEN Cons("keep preinstall", Write(p, u))
                                                ELSE Write(p, u)
  <2>1. Write(p, u) \in Seq(Call) /\ "keep preinstall" \in Call
    BY ListsTyped DEF Call
  <2> QED
    BY <2>1, JoinFacts DEF When
<1>8. Install(p, u) = Join(Join(Join(Join(a, b), c), d), e)
  BY DEF Install, Join
<1> HIDE DEF a, b, c, d, e
<1>9. Join(Join(Join(Join(a, b), c), d), e) = Join(a, Join(b, Join(c, Join(d, e))))
  BY <1>1, <1>2, <1>4, JoinFive
<1> QED
  BY <1>1, <1>2, <1>4, <1>5, <1>7, <1>8, <1>9

LEMMA RestoreInstallBegins ==
  ASSUME NEW p
  PROVE  RestoreInstall(p) = Cons("neutralize stop", Cons("neutralize disable", PutBack(p)))
<1> DEFINE first == <<"neutralize stop", "neutralize disable", "restore binary",
                      "drop preinstall", "restore unit", "daemon-reload">>
           resumed == Join(EnableSteps(p.enabled), ActiveSteps(p.active))
           last == When(p.unit # None, resumed)
<1>1. last = BringBack(p)
  <2>1. CASE p.unit # None
    <3>1. resumed \in Seq(Call)
      BY StepsTyped, JoinFacts
    <3>2. resumed = Join(resumed, <<>>)
      BY <3>1, JoinFacts
    <3> QED
      BY <2>1, <3>2, EnableStepsBegin, OneFacts DEF When, BringBack
  <2>2. CASE p.unit = None
    BY <2>2 DEF When, BringBack
  <2> QED
    BY <2>1, <2>2
<1>2. RestoreInstall(p) = Join(first, last)
  BY DEF RestoreInstall, Join
<1>3. BringBack(p) \in Seq(Call)
  BY ListsTyped
<1> DEFINE c1 == "neutralize stop"
            c2 == "neutralize disable"
            c3 == "restore binary"
            c4 == "drop preinstall"
            c5 == "restore unit"
            c6 == "daemon-reload"
<1>4. c1 \in Call /\ c2 \in Call /\ c3 \in Call /\ c4 \in Call /\ c5 \in Call /\ c6 \in Call
  BY DEF Call
<1>5. Join(first, BringBack(p))
        = Cons("neutralize stop", Cons("neutralize disable", Cons("restore binary",
            Cons("drop preinstall", Cons("restore unit", Cons("daemon-reload", BringBack(p)))))))
  <2> HIDE DEF c1, c2, c3, c4, c5, c6
  <2>1. Join(<<c1, c2, c3, c4, c5, c6>>, BringBack(p))
          = Cons(c1, Cons(c2, Cons(c3, Cons(c4, Cons(c5, Cons(c6, BringBack(p)))))))
    BY <1>3, <1>4, UnfoldSix
  <2> QED
    BY <2>1 DEF c1, c2, c3, c4, c5, c6
<1> HIDE DEF first, last
<1> QED
  BY <1>1, <1>2, <1>5 DEF PutBack, UnitBack, ReloadBack

LEMMA UpdateBegins ==
  ASSUME NEW p
  PROVE  Update(p) =
           IF p.binary # None
           THEN Cons("keep rollback", Cons("write marker", Cons("write binary", Try(p))))
           ELSE Cons("write binary", Try(p))
<1> DEFINE a == When(p.binary # None, <<"keep rollback", "write marker">>)
           b == <<"write binary">>
           c == When(p.active = "active", <<"reset-failed", "restart", "verify">>)
           after == Cons("write binary", Try(p))
<1>1. /\ "keep rollback" \in Call /\ "write marker" \in Call
      /\ <<"keep rollback", "write marker">> \in Seq(Call)
  <2>1. "keep rollback" \in Call /\ "write marker" \in Call
    BY DEF Call
  <2> QED
    BY <2>1, UnfoldTwo, OneFacts
<1>2. Try(p) \in Seq(Call) /\ "write binary" \in Call /\ b \in Seq(Call) /\ after \in Seq(Call)
  BY ListsTyped, ConsFacts, JoinFacts DEF Call
<1>3. c = Try(p)
  <2>1. "reset-failed" \in Call /\ "restart" \in Call /\ "verify" \in Call
    BY DEF Call
  <2>2. /\ <<"reset-failed", "restart", "verify">> \in Seq(Call)
        /\ Join(<<"reset-failed", "restart", "verify">>, <<>>)
             = Cons("reset-failed", Cons("restart", Cons("verify", <<>>)))
    <3> DEFINE none == <<>>
    <3>1. none \in Seq(Call)
      BY OneFacts
    <3> HIDE DEF none
    <3>2. /\ <<"reset-failed", "restart", "verify">> \in Seq(Call)
          /\ Join(<<"reset-failed", "restart", "verify">>, none)
               = Cons("reset-failed", Cons("restart", Cons("verify", none)))
      BY <2>1, <3>1, UnfoldThree
    <3> QED
      BY <3>2 DEF none
  <2>3. <<"reset-failed", "restart", "verify">> = Again(<<>>)
    BY <2>2, JoinFacts DEF Again
  <2> QED
    BY <2>3 DEF When, Try
<1>4. a \in Seq(Call)
  BY <1>1, OneFacts DEF When
<1>5. Join(b, Try(p)) = after
  BY <1>2, JoinFacts
<1>6. Join(a, after) = IF p.binary # None
                       THEN Cons("keep rollback", Cons("write marker", after))
                       ELSE after
  <2>1. CASE p.binary # None
    <3>1. Join(<<"keep rollback", "write marker">>, after)
            = Cons("keep rollback", Cons("write marker", after))
      BY <1>1, <1>2, UnfoldTwo
    <3> QED
      BY <2>1, <3>1 DEF When
  <2>2. CASE ~(p.binary # None)
    BY <1>2, <2>2, JoinFacts DEF When
  <2> QED
    BY <2>1, <2>2
<1>7. Update(p) = Join(Join(a, b), c)
  BY DEF Update, Join
<1> HIDE DEF a, b, c, after
<1>8. Join(Join(a, b), Try(p)) = Join(a, Join(b, Try(p)))
  <2>1. b \in Seq(Call) /\ Try(p) \in Seq(Call)
    BY <1>2
  <2> QED
    BY <1>4, <2>1, JoinFacts
<1> QED
  BY <1>3, <1>5, <1>6, <1>7, <1>8 DEF after

LEMMA RestoreUpdateBegins ==
  ASSUME NEW p
  PROVE  /\ RestoreUpdate(p) \in Seq(Call)
         /\ p.marker = "active" => RestoreUpdate(p) = Cons("stop", Revert)
<1> DEFINE a == <<"stop", "copy rollback">>
           three == <<"reset-failed", "restart", "verify">>
           b == When(p.marker = "active", three)
           c == <<"forget">>
<1>1. "stop" \in Call /\ "copy rollback" \in Call
  BY DEF Call
<1>2. "reset-failed" \in Call /\ "restart" \in Call /\ "verify" \in Call
  BY DEF Call
<1>3. c \in Seq(Call) /\ c = One("forget") /\ Again(c) \in Seq(Call)
  BY OneFacts, ListsTyped DEF Call
<1>4. three \in Seq(Call) /\ Join(three, c) = Again(c)
  <2>1. c \in Seq(Call)
    BY <1>3
  <2> HIDE DEF c
  <2>2. three \in Seq(Call) /\ Join(three, c) = Cons("reset-failed", Cons("restart", Cons("verify", c)))
    BY <1>2, <2>1, UnfoldThree
  <2> QED
    BY <2>2 DEF Again
<1>5. a \in Seq(Call) /\ Join(a, Again(c)) = Cons("stop", Cons("copy rollback", Again(c)))
  BY <1>1, <1>3, UnfoldTwo
<1>6. b \in Seq(Call) /\ (p.marker = "active" => b = three)
  BY <1>4, OneFacts DEF When
<1>7. RestoreUpdate(p) = Join(Join(a, b), c)
  BY DEF RestoreUpdate, Join
<1>8. Cons("stop", Cons("copy rollback", Again(c))) = Cons("stop", Revert)
  BY <1>3 DEF Revert
<1> HIDE DEF a, b, c, three
<1>9. Join(Join(a, b), c) \in Seq(Call) /\ Join(Join(a, b), c) = Join(a, Join(b, c))
  <2>1. a \in Seq(Call) /\ b \in Seq(Call) /\ c \in Seq(Call)
    BY <1>3, <1>5, <1>6
  <2> QED
    BY <2>1, JoinFacts
<1> QED
  BY <1>4, <1>5, <1>6, <1>7, <1>8, <1>9

LEMMA RollbackBegins ==
  ASSUME NEW p
  PROVE  Rollback(p) =
           IF p.marker = "active"
           THEN Cons("reset-failed", Cons("set aside", Cons("swap in", Run(p))))
           ELSE Cons("set aside", Cons("swap in", Run(p)))
<1> DEFINE a == When(p.marker = "active", <<"reset-failed">>)
           b == <<"set aside", "swap in">>
           two == <<"restart", "verify">>
           c == When(p.marker = "active", two)
           d == <<"forget">>
           exchange == Cons("set aside", Cons("swap in", Run(p)))
<1>1. "set aside" \in Call /\ "swap in" \in Call
  BY DEF Call
<1>2. "restart" \in Call /\ "verify" \in Call
  BY DEF Call
<1>3. d \in Seq(Call) /\ d = One("forget") /\ "reset-failed" \in Call
  BY OneFacts DEF Call
<1>4. c \in Seq(Call) /\ Join(c, d) = Run(p) /\ Run(p) \in Seq(Call)
  <2>1. two \in Seq(Call) /\ Join(two, d) = Cons("restart", Cons("verify", One("forget")))
    <3>1. One("forget") \in Seq(Call)
      BY <1>3
    <3>2. two \in Seq(Call) /\ Join(two, One("forget")) = Cons("restart", Cons("verify", One("forget")))
      BY <1>2, <3>1, UnfoldTwo
    <3> QED
      BY <1>3, <3>2
  <2>2. CASE p.marker = "active"
    BY <2>1, <2>2, ListsTyped DEF When, Run
  <2>3. CASE p.marker # "active"
    BY <1>3, <2>3, JoinFacts, OneFacts, ListsTyped DEF When, Run
  <2> QED
    BY <2>2, <2>3
<1>5. b \in Seq(Call) /\ Join(b, Run(p)) = exchange
  BY <1>1, <1>4, UnfoldTwo
<1>6. exchange \in Seq(Call)
  BY <1>1, <1>4, ConsFacts
<1>7. a \in Seq(Call)
  BY <1>3, OneFacts, JoinFacts DEF When
<1>8. Join(a, exchange) = IF p.marker = "active" THEN Cons("reset-failed", exchange) ELSE exchange
  BY <1>3, <1>6, JoinFacts DEF When
<1>9. Rollback(p) = Join(Join(Join(a, b), c), d)
  BY DEF Rollback, Join
<1> HIDE DEF a, b, c, d, two, exchange
<1>10. Join(Join(Join(a, b), c), d) = Join(a, Join(b, Join(c, d)))
  BY <1>3, <1>4, <1>5, <1>7, JoinFive
<1> QED
  BY <1>4, <1>5, <1>8, <1>9, <1>10 DEF exchange

LEMMA OtherLists ==
  Uninstall \in Seq(Call) /\ \A verb \in Verbs : Lifecycle(verb) \in Seq(Call)
<1>1. "disable --now" \in Call /\ "remove unit" \in Call /\ "daemon-reload" \in Call
  BY DEF Call
<1>2. Uninstall \in Seq(Call)
  BY <1>1, UnfoldThree, OneFacts DEF Uninstall
<1>3. ASSUME NEW verb \in Verbs PROVE Lifecycle(verb) \in Seq(Call)
  <2>1. verb \in Call /\ "reset-failed" \in Call
    BY DEF Verbs, Call
  <2>2. /\ When(verb \in {"start", "restart"}, <<"reset-failed">>) \in Seq(Call)
        /\ <<verb>> \in Seq(Call)
    BY <2>1, OneFacts, JoinFacts DEF When
  <2> QED
    BY <2>2, ConcatProperties DEF Lifecycle
<1> QED
  BY <1>2, <1>3

-----------------------------------------------------------------------------
(* Calls. *)

LEMMA EffectIs ==
  ASSUME NEW m
  PROVE  /\ Effect(m, "keep preinstall") = [m EXCEPT !.preinstall = m.binary]
         /\ Effect(m, "drop preinstall") = [m EXCEPT !.preinstall = None]
         /\ Effect(m, "restore binary") =
              [m EXCEPT !.binary = IF prior.binary = None THEN None ELSE m.preinstall]
         /\ Effect(m, "write binary") = [m EXCEPT !.binary = wanted.version]
         /\ Effect(m, "write unit") = [m EXCEPT !.unit = wanted.unit]
         /\ Effect(m, "restore unit") = [m EXCEPT !.unit = prior.unit]
         /\ Effect(m, "remove unit") = [m EXCEPT !.unit = None]
         /\ Effect(m, "keep rollback") = [m EXCEPT !.rollback = m.binary]
         /\ Effect(m, "write marker") = [m EXCEPT !.marker = prior.active]
         /\ Effect(m, "copy rollback") = [m EXCEPT !.binary = m.rollback]
         /\ Effect(m, "set aside") = [m EXCEPT !.binary = None]
         /\ Effect(m, "swap in") = [m EXCEPT !.binary = m.rollback, !.rollback = None]
         /\ Effect(m, "forget") = [m EXCEPT !.marker = None, !.rollback = None]
         /\ Effect(m, "daemon-reload") = [m EXCEPT !.loaded = m.unit]
         /\ Effect(m, "enable") = [m EXCEPT !.enabled = "enabled"]
         /\ Effect(m, "enable --runtime") = [m EXCEPT !.enabled = "enabled-runtime"]
         /\ Effect(m, "disable") = [m EXCEPT !.enabled = "disabled"]
         /\ Effect(m, "neutralize disable") = [m EXCEPT !.enabled = "disabled"]
         /\ Effect(m, "disable --now") = [Stopped(m) EXCEPT !.enabled = "disabled"]
         /\ Effect(m, "stop") = Stopped(m) /\ Effect(m, "neutralize stop") = Stopped(m)
         /\ Effect(m, "reset-failed") =
              IF m.active = "failed" THEN [m EXCEPT !.active = "inactive"] ELSE m
         /\ Effect(m, "start") = IF m.active = "active" THEN m ELSE Running(m)
         /\ Effect(m, "restart") = Running(m)
         /\ Effect(m, "verify") = m
  BY DEF Effect

(* A call that succeeds leaves a sound machine. *)
LEMMA EffectSound ==
  ASSUME NEW m, Sound(m), Sound(prior), NEW c \in Call, Possible(m, c),
         wanted \in [version : Version \cup {None}, unit : Unit \cup {None}]
  PROVE  Sound(Effect(m, c))
<1>1. m \in Machine /\ prior \in Machine /\ wanted.version \in Version \cup {None}
      /\ wanted.unit \in Unit \cup {None} /\ (m.active = "active" <=> m.running # None)
  BY DEF Sound
<1>2. /\ Sound([m EXCEPT !.preinstall = m.binary]) /\ Sound([m EXCEPT !.preinstall = None])
      /\ Sound([m EXCEPT !.binary = IF prior.binary = None THEN None ELSE m.preinstall])
      /\ Sound([m EXCEPT !.binary = wanted.version])
  BY <1>1 DEF Machine, Sound
<1>3. /\ Sound([m EXCEPT !.unit = wanted.unit]) /\ Sound([m EXCEPT !.unit = prior.unit])
      /\ Sound([m EXCEPT !.unit = None]) /\ Sound([m EXCEPT !.loaded = m.unit])
  BY <1>1 DEF Machine, Sound
<1>4. /\ Sound([m EXCEPT !.rollback = m.binary]) /\ Sound([m EXCEPT !.marker = prior.active])
      /\ Sound([m EXCEPT !.binary = m.rollback]) /\ Sound([m EXCEPT !.binary = None])
  BY <1>1 DEF Machine, Sound
<1>5. /\ Sound([m EXCEPT !.binary = m.rollback, !.rollback = None])
      /\ Sound([m EXCEPT !.marker = None, !.rollback = None])
  BY <1>1 DEF Machine, Sound
<1>6. /\ Sound([m EXCEPT !.enabled = "enabled"]) /\ Sound([m EXCEPT !.enabled = "disabled"])
      /\ Sound([m EXCEPT !.enabled = "enabled-runtime"])
  BY <1>1 DEF Machine, Sound
<1>7. Sound(Stopped(m))
  <2>1. /\ Sound([m EXCEPT !.running = None, !.active = "failed"])
        /\ Sound([m EXCEPT !.running = None, !.active = "inactive"])
    BY <1>1 DEF Machine, Sound
  <2> QED
    BY <2>1 DEF Stopped
<1>8. Sound([Stopped(m) EXCEPT !.enabled = "disabled"])
  <2>1. Stopped(m) \in Machine /\ (Stopped(m).active = "active" <=> Stopped(m).running # None)
    BY <1>7 DEF Sound
  <2> HIDE DEF Stopped
  <2> QED
    BY <2>1 DEF Machine, Sound
<1>9. Sound(m) /\ (m.active = "failed" => Sound([m EXCEPT !.active = "inactive"]))
  BY <1>1 DEF Machine, Sound
<1>10. m.binary # None => Sound(Running(m))
  BY <1>1 DEF Machine, Sound, Running
<1>11. /\ Sound(Effect(m, "keep preinstall")) /\ Sound(Effect(m, "drop preinstall"))
      /\ Sound(Effect(m, "restore binary")) /\ Sound(Effect(m, "write binary"))
  BY <1>2 DEF Effect
<1>12. /\ Sound(Effect(m, "write unit")) /\ Sound(Effect(m, "restore unit"))
       /\ Sound(Effect(m, "remove unit")) /\ Sound(Effect(m, "daemon-reload"))
  BY <1>3 DEF Effect
<1>13. /\ Sound(Effect(m, "keep rollback")) /\ Sound(Effect(m, "write marker"))
       /\ Sound(Effect(m, "copy rollback")) /\ Sound(Effect(m, "set aside"))
  BY <1>4 DEF Effect
<1>14. Sound(Effect(m, "swap in")) /\ Sound(Effect(m, "forget"))
  BY <1>5 DEF Effect
<1>15. /\ Sound(Effect(m, "enable")) /\ Sound(Effect(m, "enable --runtime"))
       /\ Sound(Effect(m, "disable")) /\ Sound(Effect(m, "neutralize disable"))
  BY <1>6 DEF Effect
<1>16. /\ Sound(Effect(m, "stop")) /\ Sound(Effect(m, "neutralize stop"))
       /\ Sound(Effect(m, "disable --now"))
  BY <1>7, <1>8 DEF Effect
<1>17. Sound(Effect(m, "reset-failed")) /\ Sound(Effect(m, "verify"))
  BY <1>9 DEF Effect
<1>18. m.binary # None => Sound(Effect(m, "start")) /\ Sound(Effect(m, "restart"))
  BY <1>10 DEF Effect
<1>19. c \in {"start", "restart"} => m.binary # None
  BY DEF Possible
<1> HIDE DEF Effect
<1> QED
  BY <1>11, <1>12, <1>13, <1>14, <1>15, <1>16, <1>17, <1>18, <1>19 DEF Call

(* What a call that fails may have changed. *)
LEMMA FailureIs ==
  ASSUME NEW m, Sound(m), Sound(prior), NEW c \in Call, NEW n \in Failure(m, c)
  PROVE  /\ Sound(n)
         /\ n.unit = m.unit /\ n.loaded = m.loaded
         /\ n.preinstall = m.preinstall /\ n.marker = m.marker
         /\ c # "swap in" => n.binary = m.binary
         /\ c # "disable --now" => n.enabled = m.enabled
         /\ c # "write marker" => n.rollback = m.rollback
         /\ c \notin {"start", "restart"} => n.active = m.active /\ n.running = m.running
<1>1. m \in Machine /\ prior.binary \in Version \cup {None}
      /\ (m.active = "active" <=> m.running # None)
  BY DEF Sound, Machine
<1>2. CASE c \in {"start", "restart"}
  <2>1. n \in {m, [m EXCEPT !.active = "failed", !.running = None]}
    BY <1>2 DEF Failure
  <2> QED
    BY <1>1, <1>2, <2>1 DEF Machine, Sound
<1>3. CASE c = "disable --now"
  <2>1. n \in {m, [m EXCEPT !.enabled = "disabled"]}
    BY <1>3 DEF Failure
  <2> QED
    BY <1>1, <1>3, <2>1 DEF Machine, Sound
<1>4. CASE c = "write marker"
  <2>1. n = [m EXCEPT !.rollback = None]
    BY <1>4 DEF Failure
  <2> QED
    BY <1>1, <1>4, <2>1 DEF Machine, Sound
<1>5. CASE c = "swap in"
  <2>1. n \in {m, [m EXCEPT !.binary = prior.binary]}
    BY <1>5 DEF Failure
  <2> QED
    BY <1>1, <1>5, <2>1 DEF Machine, Sound
<1>6. CASE c \notin {"start", "restart", "disable --now", "write marker", "swap in"}
  <2>1. n = m
    BY <1>6 DEF Failure
  <2> QED
    BY <2>1
<1> QED
  BY <1>2, <1>3, <1>4, <1>5, <1>6

(* What a call that succeeds changes, field by field. *)
Stops == {"stop", "neutralize stop", "disable --now"}
Disables == {"disable", "neutralize disable", "disable --now"}

Changes(m, c, n) ==
  /\ n.unit = CASE c = "write unit" -> wanted.unit
                [] c = "restore unit" -> prior.unit
                [] c = "remove unit" -> None
                [] OTHER -> m.unit
  /\ n.loaded = IF c = "daemon-reload" THEN m.unit ELSE m.loaded
  /\ n.binary = CASE c = "write binary" -> wanted.version
                  [] c = "restore binary" -> IF prior.binary = None THEN None ELSE m.preinstall
                  [] c \in {"copy rollback", "swap in"} -> m.rollback
                  [] c = "set aside" -> None
                  [] OTHER -> m.binary
  /\ n.preinstall = CASE c = "keep preinstall" -> m.binary
                      [] c = "drop preinstall" -> None
                      [] OTHER -> m.preinstall
  /\ n.rollback = CASE c = "keep rollback" -> m.binary
                    [] c \in {"swap in", "forget"} -> None
                    [] OTHER -> m.rollback
  /\ n.marker = CASE c = "write marker" -> prior.active
                  [] c = "forget" -> None
                  [] OTHER -> m.marker
  /\ n.enabled = CASE c = "enable" -> "enabled"
                   [] c = "enable --runtime" -> "enabled-runtime"
                   [] c \in Disables -> "disabled"
                   [] OTHER -> m.enabled
  /\ c \notin Stops \cup {"start", "restart", "reset-failed"} =>
       n.active = m.active /\ n.running = m.running
  /\ c = "restart" => n.active = "active" /\ n.running = m.binary
  /\ c = "reset-failed" =>
       n.running = m.running /\ (m.active # "failed" => n.active = m.active)
  /\ c \in Stops => (m.active = "inactive" => n.active = "inactive")

LEMMA EffectChanges ==
  ASSUME NEW m \in Machine, NEW c \in Call
  PROVE  Changes(m, c, Effect(m, c))
<1>1. CASE c = "keep preinstall"
  BY <1>1 DEF Effect, Machine, Changes, Stops, Disables
<1>2. CASE c = "drop preinstall"
  BY <1>2 DEF Effect, Machine, Changes, Stops, Disables
<1>3. CASE c = "restore binary"
  BY <1>3 DEF Effect, Machine, Changes, Stops, Disables
<1>4. CASE c = "write binary"
  BY <1>4 DEF Effect, Machine, Changes, Stops, Disables
<1>5. CASE c = "write unit"
  BY <1>5 DEF Effect, Machine, Changes, Stops, Disables
<1>6. CASE c = "restore unit"
  BY <1>6 DEF Effect, Machine, Changes, Stops, Disables
<1>7. CASE c = "remove unit"
  BY <1>7 DEF Effect, Machine, Changes, Stops, Disables
<1>8. CASE c = "keep rollback"
  BY <1>8 DEF Effect, Machine, Changes, Stops, Disables
<1>9. CASE c = "write marker"
  BY <1>9 DEF Effect, Machine, Changes, Stops, Disables
<1>10. CASE c = "copy rollback"
  BY <1>10 DEF Effect, Machine, Changes, Stops, Disables
<1>11. CASE c = "set aside"
  BY <1>11 DEF Effect, Machine, Changes, Stops, Disables
<1>12. CASE c = "swap in"
  BY <1>12 DEF Effect, Machine, Changes, Stops, Disables
<1>13. CASE c = "forget"
  BY <1>13 DEF Effect, Machine, Changes, Stops, Disables
<1>14. CASE c = "daemon-reload"
  BY <1>14 DEF Effect, Machine, Changes, Stops, Disables
<1>15. CASE c = "enable"
  BY <1>15 DEF Effect, Machine, Changes, Stops, Disables
<1>16. CASE c = "enable --runtime"
  BY <1>16 DEF Effect, Machine, Changes, Stops, Disables
<1>17. CASE c = "disable"
  BY <1>17 DEF Effect, Machine, Changes, Stops, Disables
<1>18. CASE c = "neutralize disable"
  BY <1>18 DEF Effect, Machine, Changes, Stops, Disables
<1>19. CASE c = "disable --now"
  BY <1>19 DEF Effect, Machine, Changes, Stops, Disables, Stopped
<1>20. CASE c = "stop"
  BY <1>20 DEF Effect, Machine, Changes, Stops, Disables, Stopped
<1>21. CASE c = "neutralize stop"
  BY <1>21 DEF Effect, Machine, Changes, Stops, Disables, Stopped
<1>22. CASE c = "reset-failed"
  BY <1>22 DEF Effect, Machine, Changes, Stops, Disables
<1>23. CASE c = "start"
  BY <1>23 DEF Effect, Machine, Changes, Stops, Disables, Running
<1>24. CASE c = "restart"
  BY <1>24 DEF Effect, Machine, Changes, Stops, Disables, Running
<1>25. CASE c = "verify"
  BY <1>25 DEF Effect, Machine, Changes, Stops, Disables
<1> QED
  BY <1>1, <1>2, <1>3, <1>4, <1>5, <1>6, <1>7, <1>8, <1>9, <1>10, <1>11, <1>12, <1>13,
     <1>14, <1>15, <1>16, <1>17, <1>18, <1>19, <1>20, <1>21, <1>22, <1>23, <1>24, <1>25 DEF Call

-----------------------------------------------------------------------------
(* One call of the running command. *)

LEMMA SucceedAt ==
  ASSUME Known, Succeed, NEW c \in Call, NEW s \in Seq(Call), todo = Cons(c, s)
  PROVE  /\ todo' = s /\ Changes(machine, c, machine') /\ Possible(machine, c)
         /\ UNCHANGED <<op, phase, prior, wanted, flawed, interrupts>>
<1>1. Head(todo) = c /\ Tail(todo) = s
  BY ConsFacts
<1>2. machine' = Effect(machine, c) /\ machine \in Machine
  BY <1>1 DEF Succeed, Known, Sound
<1> QED
  BY <1>1, <1>2, EffectChanges DEF Succeed, argVars

(* What a failing call of an install or of an update leaves alone. *)
LEMMA FailsAt ==
  ASSUME Known, Fails, NEW c \in Call, NEW s \in Seq(Call), todo = Cons(c, s)
  PROVE  /\ Head(todo) = c /\ Tail(todo) = s /\ ~CannotFail(c)
         /\ machine'.unit = machine.unit /\ machine'.loaded = machine.loaded
         /\ machine'.preinstall = machine.preinstall /\ machine'.marker = machine.marker
         /\ c # "swap in" => machine'.binary = machine.binary
         /\ c # "disable --now" => machine'.enabled = machine.enabled
         /\ c # "write marker" => machine'.rollback = machine.rollback
         /\ c \notin {"start", "restart"} =>
              machine'.active = machine.active /\ machine'.running = machine.running
<1>1. Head(todo) = c /\ Tail(todo) = s
  BY ConsFacts
<1>2. machine' \in Failure(machine, c) /\ ~CannotFail(c)
  BY <1>1 DEF Fails
<1> QED
  BY <1>1, <1>2, FailureIs DEF Known

(* The machine stays sound, whatever call is made of it. *)
LEMMA SoundStays ==
  ASSUME Known, Succeed \/ Fails \/ ServiceCrashes
  PROVE  Sound(machine')
<1>1. CASE Succeed
  <2>1. Head(todo) \in Call /\ Possible(machine, Head(todo))
    BY <1>1, HeadTailProperties DEF Known, Succeed, Busy
  <2> QED
    BY <1>1, <2>1, EffectSound DEF Known, Succeed
<1>2. CASE Fails
  <2>1. Head(todo) \in Call
    BY <1>2, HeadTailProperties DEF Known, Fails, Busy
  <2> QED
    BY <1>2, <2>1, FailureIs DEF Known, Fails
<1>3. CASE ServiceCrashes
  BY <1>3 DEF ServiceCrashes, Known, Sound, Machine
<1> QED
  BY <1>1, <1>2, <1>3

-----------------------------------------------------------------------------
(* An installation, stage by stage. *)

LEMMA InstallingSucceeds ==
  ASSUME Known, op = "install", phase = "forward", InstallInv, Installing, Succeed
  PROVE  InstallInv'
<1>1. /\ prior \in Machine /\ wanted.version \in Version /\ wanted.unit \in Unit /\ ~flawed
      /\ wanted.unit # None /\ wanted.version # None /\ Quiet
      /\ Installed(prior) => prior.active # "failed"
  BY LifecycleAssumption DEF Known, Sound, InstallInv
<1>2. todo # <<>>
  BY DEF Succeed, Busy
<1>3. /\ UNCHANGED <<op, phase, prior, wanted, flawed>>
  BY DEF Succeed, argVars
<1>4. Quiet' /\ (Resuming' \/ Installing') => InstallInv'
  BY <1>1, <1>3 DEF InstallInv, Installed
<1>5. CASE NothingToDo
  BY <1>2, <1>5 DEF NothingToDo
<1>6. CASE Keeping
  <2>1. "keep preinstall" \in Call /\ Write(prior, wanted.unit) \in Seq(Call)
    BY ListsTyped DEF Call
  <2>2. todo' = Write(prior, wanted.unit) /\ Changes(machine, "keep preinstall", machine')
    BY <1>6, <2>1, SucceedAt DEF Keeping
  <2>3. /\ machine'.preinstall = machine.binary /\ machine'.active = machine.active
    BY <2>2 DEF Changes, Stops
  <2> QED
    BY <1>1, <1>3, <1>4, <1>6, <2>2, <2>3
       DEF Keeping, Installing, WritingUnit, Keepsake, Quiet, Installed
<1>7. CASE WritingUnit
  <2>1. "write unit" \in Call /\ Cons("write binary", Load(prior, wanted.unit)) \in Seq(Call)
    BY ListsTyped, ConsFacts DEF Call
  <2>2. /\ todo' = Cons("write binary", Load(prior, wanted.unit))
        /\ Changes(machine, "write unit", machine')
    BY <1>7, <2>1, SucceedAt DEF WritingUnit, Write
  <2>3. /\ machine'.unit = wanted.unit /\ machine'.preinstall = machine.preinstall
        /\ machine'.active = machine.active
    BY <2>2 DEF Changes, Stops
  <2> QED
    BY <1>1, <1>3, <1>4, <1>7, <2>2, <2>3
       DEF WritingUnit, Installing, WritingBinary, Keepsake, Quiet, Installed
<1>8. CASE WritingBinary
  <2>1. "write binary" \in Call /\ Load(prior, wanted.unit) \in Seq(Call)
    BY ListsTyped DEF Call
  <2>2. /\ todo' = Load(prior, wanted.unit) /\ Changes(machine, "write binary", machine')
    BY <1>8, <2>1, SucceedAt DEF WritingBinary
  <2>3. /\ machine'.unit = machine.unit /\ machine'.binary = wanted.version
        /\ machine'.preinstall = machine.preinstall /\ machine'.active = machine.active
    BY <2>2 DEF Changes, Stops
  <2>4. Keepsake' /\ Written' /\ Quiet'
    BY <1>1, <1>3, <1>8, <2>3 DEF WritingBinary, Keepsake, Written, Quiet, Installed
  <2>5. CASE wanted.unit # prior.unit
    BY <1>3, <1>4, <2>2, <2>4, <2>5 DEF Load, Loading, Installing
  <2>6. CASE wanted.unit = prior.unit
    BY <1>1, <1>3, <1>4, <2>2, <2>4, <2>6
       DEF Load, Bring, Installed, Resuming, Disabling, InPlace, Rest
  <2> QED
    BY <2>5, <2>6
<1>9. CASE Loading
  <2>1. "daemon-reload" \in Call /\ Bring(prior) \in Seq(Call)
    BY ListsTyped DEF Call
  <2>2. /\ todo' = Bring(prior) /\ Changes(machine, "daemon-reload", machine')
    BY <1>9, <2>1, SucceedAt DEF Loading
  <2>3. /\ machine'.unit = machine.unit /\ machine'.binary = machine.binary
        /\ machine'.preinstall = machine.preinstall /\ machine'.active = machine.active
    BY <2>2 DEF Changes, Stops
  <2>4. Keepsake' /\ Written' /\ Quiet'
    BY <1>1, <1>3, <1>9, <2>3 DEF Loading, Keepsake, Written, Quiet, Installed
  <2>5. CASE prior.unit = None
    BY <1>3, <1>4, <2>2, <2>4, <2>5 DEF Bring, StartingAfresh, Installing, Installed
  <2>6. CASE prior.unit # None
    BY <1>3, <1>4, <2>2, <2>4, <2>6
       DEF Bring, Installed, Resuming, Disabling, InPlace, Rest
  <2> QED
    BY <2>5, <2>6
<1>10. CASE StartingAfresh
  <2>1. /\ "enable" \in Call /\ "reset-failed" \in Call /\ "restart" \in Call
        /\ Final \in Seq(Call) /\ Cons("restart", Final) \in Seq(Call)
        /\ Cons("reset-failed", Cons("restart", Final)) \in Seq(Call)
    BY ListsTyped, ConsFacts DEF Call
  <2>2. Quiet'
    BY <1>3, <1>10 DEF Quiet, StartingAfresh, Installed
  <2>3. CASE todo = Afresh
    <3>1. /\ todo' = Cons("reset-failed", Cons("restart", Final))
          /\ Changes(machine, "enable", machine')
      BY <2>1, <2>3, SucceedAt DEF Afresh
    <3>2. Keepsake' /\ Written'
      BY <1>3, <1>10, <3>1 DEF Changes, StartingAfresh, Keepsake, Written
    <3> QED
      BY <1>3, <1>4, <1>10, <2>2, <3>1, <3>2 DEF StartingAfresh, Installing, Installed
  <2>4. CASE todo = Cons("reset-failed", Cons("restart", Final))
    <3>1. /\ todo' = Cons("restart", Final)
          /\ Changes(machine, "reset-failed", machine')
      BY <2>1, <2>4, SucceedAt
    <3>2. Keepsake' /\ Written'
      BY <1>3, <1>10, <3>1 DEF Changes, Disables, StartingAfresh, Keepsake, Written
    <3> QED
      BY <1>3, <1>4, <1>10, <2>2, <3>1, <3>2 DEF StartingAfresh, Installing, Installed
  <2>5. CASE todo = Cons("restart", Final)
    <3>1. /\ todo' = Final /\ Changes(machine, "restart", machine')
      BY <2>1, <2>5, SucceedAt
    <3>2. Written'
      BY <1>3, <1>10, <3>1 DEF Changes, Disables, StartingAfresh, Written
    <3> QED
      BY <1>3, <1>4, <1>10, <2>2, <3>1, <3>2
         DEF StartingAfresh, Installing, Installed, Finishing, Settled
  <2> QED
    BY <1>10, <2>3, <2>4, <2>5 DEF StartingAfresh
<1>11. CASE Finishing
  <2>1. todo = Cons("drop preinstall", <<>>) /\ "drop preinstall" \in Call /\ <<>> \in Seq(Call)
    BY <1>2, <1>11, OneFacts DEF Finishing, Final, One, Call
  <2>2. todo' = <<>> /\ Changes(machine, "drop preinstall", machine')
    BY <2>1, SucceedAt
  <2>3. /\ machine'.unit = machine.unit /\ machine'.binary = machine.binary
        /\ machine'.enabled = machine.enabled /\ machine'.active = machine.active
        /\ machine'.running = machine.running
    BY <2>2 DEF Changes, Stops, Disables
  <2>4. Written' /\ Settled(wanted.version)' /\ Quiet'
    BY <1>1, <1>3, <1>11, <2>3 DEF Finishing, Written, Settled, Runs, Quiet, Installed
  <2> QED
    BY <1>3, <1>4, <2>2, <2>4 DEF Finishing, Installing
<1> QED
  BY <1>5, <1>6, <1>7, <1>8, <1>9, <1>10, <1>11 DEF Installing

(* The calls that both the installation and its way back end with. *)
LEMMA RestTyped ==
  /\ Rest \in Seq(Call)
  /\ Activate(prior, Rest) \in Seq(Call) /\ EnableAgain(prior, Rest) \in Seq(Call)
  /\ Cons("restart", Rest) \in Seq(Call)
  /\ "disable" \in Call /\ "enable" \in Call /\ "enable --runtime" \in Call
  /\ "reset-failed" \in Call /\ "restart" \in Call /\ "stop" \in Call
<1>1. Rest \in Seq(Call)
  BY ListsTyped, OneFacts DEF Rest
<1>2. /\ "disable" \in Call /\ "enable" \in Call /\ "enable --runtime" \in Call
      /\ "reset-failed" \in Call /\ "restart" \in Call /\ "stop" \in Call
  BY DEF Call
<1> QED
  BY <1>1, <1>2, ListsTyped, ConsFacts

(* What is in place stays in place while only systemd is told what to do. *)
LEMMA InPlaceStays ==
  ASSUME UNCHANGED <<phase, prior, wanted>>, InPlace,
         machine'.unit = machine.unit, machine'.loaded = machine.loaded,
         machine'.binary = machine.binary, machine'.preinstall = machine.preinstall
  PROVE  InPlace'
  BY DEF InPlace, Written, Keepsake

LEMMA ResumingEnds ==
  ASSUME Known, op = "install", InstallInv, Installed(prior), UNCHANGED <<op, phase, prior, wanted>>,
         todo' = Rest, Quiet', phase = "forward" => ~flawed',
         flawed' \/ (InPlace' /\ machine'.enabled = prior.enabled),
         flawed' \/ (prior.active = "active" => Runs(machine.binary)'),
         machine'.binary = machine.binary
  PROVE  InstallInv'
<1>1. CASE phase = "forward"
  <2>1. /\ machine'.unit = wanted.unit /\ machine'.binary = wanted.version
        /\ machine'.enabled = prior.enabled
        /\ prior.active = "active" => Runs(machine.binary)'
    BY <1>1 DEF InPlace, Written
  <2>2. Finishing'
    BY <1>1, <2>1 DEF Finishing, Written, Settled, Runs, Rest
  <2> QED
    BY <1>1, <2>2 DEF InstallInv, Installing, Installed
<1>2. CASE phase # "forward"
  <2>1. flawed' \/ (InPlace' /\ Settled(prior.binary)')
    BY <1>2 DEF InPlace, Settled, Runs
  <2>2. Restored'
    BY <1>2, <2>1 DEF Restored, Rest
  <2> QED
    BY <1>2, <2>2 DEF InstallInv, Restoring, Installed
<1> QED
  BY <1>1, <1>2

LEMMA ResumingSucceeds ==
  ASSUME Known, op = "install", InstallInv, Resuming, Succeed
  PROVE  InstallInv'
<1>1. /\ prior \in Machine /\ Quiet /\ Installed(prior)
      /\ phase = "forward" => ~flawed
      /\ prior.active \in {"active", "inactive"}
      /\ prior.enabled \in {"enabled", "enabled-runtime", "disabled"}
  BY DEF Known, Sound, Machine, InstallInv, Resuming
<1>2. /\ UNCHANGED <<op, phase, prior, wanted, flawed>>
  BY DEF Succeed, argVars
<1>3. Quiet' /\ Resuming' => InstallInv'
  BY <1>1, <1>2 DEF InstallInv, Installed
<1>4. CASE Disabling
  <2>1. todo' = EnableAgain(prior, Rest) /\ Changes(machine, "disable", machine')
    BY <1>4, RestTyped, SucceedAt DEF Disabling
  <2>2. /\ machine'.unit = machine.unit /\ machine'.loaded = machine.loaded
        /\ machine'.binary = machine.binary /\ machine'.preinstall = machine.preinstall
        /\ machine'.enabled = "disabled" /\ machine'.active = machine.active
    BY <2>1 DEF Changes, Stops, Disables
  <2>3. Quiet' /\ (flawed' \/ InPlace') /\ Rest' = Rest
    BY <1>1, <1>2, <1>4, <2>2, InPlaceStays DEF Disabling, Quiet, Installed, Rest
  <2>4. CASE prior.enabled = "disabled"
    BY <1>1, <1>2, <1>3, <2>1, <2>2, <2>3, <2>4 DEF EnableAgain, Resuming, Activating, Installed
  <2>5. CASE prior.enabled # "disabled"
    BY <1>1, <1>2, <1>3, <2>1, <2>3, <2>5 DEF EnableAgain, Resuming, Enabling, Installed
  <2> QED
    BY <2>4, <2>5
<1>5. CASE Enabling
  <2>1. PICK c \in {"enable", "enable --runtime"} :
          /\ todo = Cons(c, Activate(prior, Rest))
          /\ prior.enabled = IF c = "enable" THEN "enabled" ELSE "enabled-runtime"
    BY <1>5 DEF Enabling
  <2>2. todo' = Activate(prior, Rest) /\ Changes(machine, c, machine')
    BY <2>1, RestTyped, SucceedAt
  <2>3. /\ machine'.unit = machine.unit /\ machine'.loaded = machine.loaded
        /\ machine'.binary = machine.binary /\ machine'.preinstall = machine.preinstall
        /\ machine'.enabled = prior.enabled /\ machine'.active = machine.active
    BY <2>1, <2>2 DEF Changes, Stops, Disables
  <2>4. Quiet' /\ (flawed' \/ InPlace') /\ Rest' = Rest
    BY <1>1, <1>2, <1>5, <2>3, InPlaceStays DEF Enabling, Quiet, Installed, Rest
  <2> QED
    BY <1>1, <1>2, <1>3, <2>2, <2>3, <2>4 DEF Resuming, Activating, Installed
<1>6. CASE Activating /\ todo = Activate(prior, Rest) /\ prior.active = "active"
  <2>1. /\ todo' = Cons("restart", Rest) /\ Changes(machine, "reset-failed", machine')
    BY <1>6, RestTyped, SucceedAt DEF Activate
  <2>2. /\ machine'.unit = machine.unit /\ machine'.loaded = machine.loaded
        /\ machine'.binary = machine.binary /\ machine'.preinstall = machine.preinstall
        /\ machine'.enabled = machine.enabled
    BY <2>1 DEF Changes, Stops, Disables
  <2>3. Quiet' /\ (flawed' \/ (InPlace' /\ machine'.enabled = prior.enabled)) /\ Rest' = Rest
    BY <1>1, <1>2, <1>6, <2>2, InPlaceStays DEF Activating, Quiet, Installed, Rest
  <2> QED
    BY <1>1, <1>2, <1>3, <1>6, <2>1, <2>3 DEF Resuming, Activating, Installed
<1>7. CASE Activating /\ todo = Activate(prior, Rest) /\ prior.active = "inactive"
  <2>1. /\ todo' = Rest /\ Changes(machine, "stop", machine')
    BY <1>7, RestTyped, SucceedAt DEF Activate
  <2>2. /\ machine'.unit = machine.unit /\ machine'.loaded = machine.loaded
        /\ machine'.binary = machine.binary /\ machine'.preinstall = machine.preinstall
        /\ machine'.enabled = machine.enabled
        /\ machine.active = "inactive" => machine'.active = "inactive"
    BY <2>1 DEF Changes, Stops, Disables
  <2>3. Quiet' /\ (flawed' \/ (InPlace' /\ machine'.enabled = prior.enabled))
    BY <1>1, <1>2, <1>7, <2>2, InPlaceStays DEF Activating, Quiet, Installed
  <2> QED
    BY <1>1, <1>2, <1>7, <2>1, <2>2, <2>3, ResumingEnds
<1>8. CASE Activating /\ prior.active = "active" /\ todo = Cons("restart", Rest)
  <2>1. /\ todo' = Rest /\ Changes(machine, "restart", machine')
    BY <1>8, RestTyped, SucceedAt
  <2>2. /\ machine'.unit = machine.unit /\ machine'.loaded = machine.loaded
        /\ machine'.binary = machine.binary /\ machine'.preinstall = machine.preinstall
        /\ machine'.enabled = machine.enabled
        /\ machine'.active = "active" /\ machine'.running = machine.binary
    BY <2>1 DEF Changes, Stops, Disables
  <2>3. Quiet' /\ (flawed' \/ (InPlace' /\ machine'.enabled = prior.enabled))
    BY <1>1, <1>2, <1>8, <2>2, InPlaceStays DEF Activating, Quiet, Installed
  <2>4. Runs(machine.binary)'
    BY <2>2 DEF Runs
  <2> QED
    BY <1>1, <1>2, <1>8, <2>1, <2>2, <2>3, <2>4, ResumingEnds
<1> QED
  BY <1>1, <1>4, <1>5, <1>6, <1>7, <1>8 DEF Resuming, Activating

(* The way back, from its first call to the reload of systemd. *)
BackTyped ==
  /\ "neutralize stop" \in Call /\ "neutralize disable" \in Call /\ "restore binary" \in Call
  /\ "drop preinstall" \in Call /\ "restore unit" \in Call /\ "daemon-reload" \in Call
  /\ Cons("neutralize disable", PutBack(prior)) \in Seq(Call) /\ PutBack(prior) \in Seq(Call)
  /\ Cons("drop preinstall", UnitBack(prior)) \in Seq(Call) /\ UnitBack(prior) \in Seq(Call)
  /\ ReloadBack(prior) \in Seq(Call) /\ BringBack(prior) \in Seq(Call)

LEMMA BackIsTyped == BackTyped
<1>1. /\ "neutralize stop" \in Call /\ "neutralize disable" \in Call
      /\ "restore binary" \in Call /\ "drop preinstall" \in Call
      /\ "restore unit" \in Call /\ "daemon-reload" \in Call
  BY DEF Call
<1> QED
  BY <1>1, ListsTyped, ConsFacts DEF BackTyped

(* Once systemd has read the unit that was put back. *)
LEMMA Reloaded ==
  ASSUME Known, op = "install", phase = "recovery", InstallInv,
         UNCHANGED <<op, phase, prior, wanted>>, todo' = BringBack(prior), Quiet',
         flawed' \/ InPlace'
  PROVE  InstallInv'
<1>1. CASE Installed(prior)
  <2>1. Disabling' /\ Installed(prior)'
    BY <1>1 DEF BringBack, Disabling, Rest, Installed
  <2> QED
    BY <2>1 DEF InstallInv, Resuming, Installed
<1>2. CASE ~Installed(prior)
  <2>1. Restored'
    BY <1>2 DEF BringBack, Restored, Settled, Installed
  <2> QED
    BY <2>1 DEF InstallInv, Restoring, Installed
<1> QED
  BY <1>1, <1>2

LEMMA RestoringSucceeds ==
  ASSUME Known, op = "install", phase = "recovery", InstallInv, Restoring, Succeed
  PROVE  InstallInv'
<1>1. prior \in Machine /\ Quiet /\ BackTyped
  BY BackIsTyped DEF Known, Sound, InstallInv
<1>2. /\ UNCHANGED <<op, phase, prior, wanted, flawed>> /\ todo # <<>>
  BY DEF Succeed, Busy, argVars
<1>3. Quiet' /\ Restoring' => InstallInv'
  BY <1>2 DEF InstallInv, Installed
<1>4. CASE Neutralizing /\ todo = Cons("neutralize stop", Cons("neutralize disable", PutBack(prior)))
  <2>1. /\ todo' = Cons("neutralize disable", PutBack(prior))
        /\ Changes(machine, "neutralize stop", machine')
    BY <1>1, <1>4, SucceedAt DEF BackTyped
  <2>2. machine'.preinstall = machine.preinstall
    BY <2>1 DEF Changes
  <2>3. machine.active = "inactive" => machine'.active = "inactive"
    BY <2>1 DEF Changes, Stops
  <2> QED
    BY <1>1, <1>2, <1>3, <1>4, <2>1, <2>2, <2>3
       DEF Restoring, Neutralizing, Keepsake, Quiet, Installed
<1>5. CASE Neutralizing /\ todo = Cons("neutralize disable", PutBack(prior))
  <2>1. todo' = PutBack(prior) /\ Changes(machine, "neutralize disable", machine')
    BY <1>1, <1>5, SucceedAt DEF BackTyped
  <2>2. machine'.preinstall = machine.preinstall /\ machine'.active = machine.active
    BY <2>1 DEF Changes, Stops
  <2> QED
    BY <1>1, <1>2, <1>3, <1>5, <2>1, <2>2 DEF Restoring, Neutralizing, Keepsake, Quiet, Installed
<1>6. CASE Neutralizing /\ todo = PutBack(prior)
  <2>1. /\ todo' = Cons("drop preinstall", UnitBack(prior))
        /\ Changes(machine, "restore binary", machine')
    BY <1>1, <1>6, SucceedAt DEF BackTyped, PutBack
  <2>2. /\ machine'.binary = IF prior.binary = None THEN None ELSE machine.preinstall
        /\ machine'.active = machine.active
    BY <2>1 DEF Changes, Stops
  <2>3. machine'.binary = prior.binary
    BY <1>6, <2>2 DEF Neutralizing, Keepsake
  <2> QED
    BY <1>1, <1>2, <1>3, <2>1, <2>2, <2>3 DEF Restoring, PuttingBack, Quiet, Installed
<1>7. CASE PuttingBack /\ todo = Cons("drop preinstall", UnitBack(prior))
  <2>1. todo' = UnitBack(prior) /\ Changes(machine, "drop preinstall", machine')
    BY <1>1, <1>7, SucceedAt DEF BackTyped
  <2>2. machine'.binary = machine.binary /\ machine'.active = machine.active
    BY <2>1 DEF Changes, Stops
  <2> QED
    BY <1>1, <1>2, <1>3, <1>7, <2>1, <2>2 DEF Restoring, PuttingBack, Quiet, Installed
<1>8. CASE PuttingBack /\ todo = UnitBack(prior)
  <2>1. todo' = ReloadBack(prior) /\ Changes(machine, "restore unit", machine')
    BY <1>1, <1>8, SucceedAt DEF BackTyped, UnitBack
  <2>2. /\ machine'.binary = machine.binary /\ machine'.unit = prior.unit
        /\ machine'.active = machine.active
    BY <2>1 DEF Changes, Stops
  <2> QED
    BY <1>1, <1>2, <1>3, <1>8, <2>1, <2>2 DEF Restoring, PuttingBack, Reloading, Quiet, Installed
<1>9. CASE Reloading
  <2>1. todo' = BringBack(prior) /\ Changes(machine, "daemon-reload", machine')
    BY <1>1, <1>9, SucceedAt DEF BackTyped, Reloading, ReloadBack
  <2>2. /\ machine'.binary = machine.binary /\ machine'.unit = machine.unit
        /\ machine'.loaded = machine.unit /\ machine'.active = machine.active
    BY <2>1 DEF Changes, Stops
  <2>3. Quiet' /\ (flawed' \/ InPlace')
    BY <1>1, <1>2, <1>9, <2>2 DEF Reloading, InPlace, Quiet, Installed
  <2> QED
    BY <1>2, <2>1, <2>3, Reloaded
<1> QED
  BY <1>2, <1>4, <1>5, <1>6, <1>7, <1>8, <1>9
     DEF Restoring, Neutralizing, PuttingBack, Restored

(* A failure before anything was changed ends the installation, any other  *)
(* one turns it back.                                                      *)
LEMMA InstallTurnsBack ==
  ASSUME Known, op = "install", InstallInv, InstallFails
  PROVE  op' = "install" => InstallInv'
<1> SUFFICES ASSUME op' = "install" PROVE InstallInv'
  OBVIOUS
<1>1. /\ phase = "forward" /\ Fails /\ todo # <<>> /\ ~flawed /\ Quiet
      /\ Head(todo) # "keep preinstall"
  BY DEF InstallFails, End, Return, Known, Fails, Busy, InstallInv
<1>2. /\ phase' = "recovery" /\ todo' = RestoreInstall(prior)
      /\ UNCHANGED <<op, prior, wanted, flawed>>
  BY <1>1 DEF InstallFails, Recover, argVars
<1>3. ASSUME NEW c \in Call, NEW s \in Seq(Call), todo = Cons(c, s), Keepsake,
             c \in {"start", "restart"} => ~Installed(prior) \/ prior.active = "active"
      PROVE  InstallInv'
  <2>1. /\ machine'.preinstall = machine.preinstall
        /\ c \notin {"start", "restart"} => machine'.active = machine.active
    BY <1>1, <1>3, FailsAt
  <2>2. Keepsake' /\ Quiet'
    BY <1>1, <1>2, <1>3, <2>1 DEF Keepsake, Quiet, Installed
  <2>3. Neutralizing'
    BY <1>2, <2>2, RestoreInstallBegins DEF Neutralizing
  <2> QED
    BY <1>2, <2>2, <2>3 DEF InstallInv, Restoring, Installed
<1>4. CASE Resuming
  <2>1. Keepsake /\ Installed(prior)
    BY <1>1, <1>4 DEF Resuming, Disabling, Enabling, Activating, InPlace
  <2>2. PICK c \in {"disable", "enable", "enable --runtime", "reset-failed", "restart", "stop"},
             s \in Seq(Call) : todo = Cons(c, s) /\ (c = "restart" => prior.active = "active")
    BY <1>4, RestTyped DEF Resuming, Disabling, Enabling, Activating, Activate
  <2>3. c \in Call
    BY <2>2 DEF Call
  <2> QED
    BY <1>3, <2>1, <2>2, <2>3
<1>5. CASE Keeping
  <2>1. "keep preinstall" \in Call /\ Write(prior, wanted.unit) \in Seq(Call)
    BY ListsTyped DEF Call
  <2> QED
    BY <1>1, <1>5, <2>1, ConsFacts DEF Keeping
<1>6. CASE WritingUnit
  <2>1. "write unit" \in Call /\ Cons("write binary", Load(prior, wanted.unit)) \in Seq(Call)
    BY ListsTyped, ConsFacts DEF Call
  <2> QED
    BY <1>3, <1>6, <2>1 DEF WritingUnit, Write
<1>7. CASE WritingBinary
  <2>1. "write binary" \in Call /\ Load(prior, wanted.unit) \in Seq(Call)
    BY ListsTyped DEF Call
  <2> QED
    BY <1>3, <1>7, <2>1 DEF WritingBinary
<1>8. CASE Loading
  <2>1. "daemon-reload" \in Call /\ Bring(prior) \in Seq(Call)
    BY ListsTyped DEF Call
  <2> QED
    BY <1>3, <1>8, <2>1 DEF Loading
<1>9. CASE StartingAfresh
  <2>1. /\ "enable" \in Call /\ "reset-failed" \in Call /\ "restart" \in Call
        /\ Final \in Seq(Call) /\ Cons("restart", Final) \in Seq(Call)
        /\ Cons("reset-failed", Cons("restart", Final)) \in Seq(Call)
    BY ListsTyped, ConsFacts DEF Call
  <2> QED
    BY <1>3, <1>9, <2>1 DEF StartingAfresh, Afresh
<1>10. CASE Finishing
  <2>1. todo = Cons("drop preinstall", <<>>) /\ "drop preinstall" \in Call /\ <<>> \in Seq(Call)
    BY <1>1, <1>10, OneFacts DEF Finishing, Final, One, Call
  <2> QED
    BY <1>1, <2>1, FailsAt DEF CannotFail
<1>11. CASE NothingToDo
  BY <1>1, <1>11 DEF NothingToDo
<1> QED
  BY <1>1, <1>4, <1>5, <1>6, <1>7, <1>8, <1>9, <1>10, <1>11 DEF InstallInv, Installing

(* A way back that fails at a call goes on with the next. *)
LEMMA RestoreGoesOn ==
  ASSUME Known, op = "install", InstallInv, RestoreFails
  PROVE  InstallInv' /\ todo' \in Seq(Call)
<1>1. /\ phase = "recovery" /\ Fails /\ todo # <<>> /\ Quiet /\ BackTyped
      /\ prior.enabled \in {"enabled", "enabled-runtime", "disabled"}
      /\ Installed(prior) => prior.active \in {"active", "inactive"}
  BY BackIsTyped DEF RestoreFails, Fails, Busy, InstallInv, Known, Sound, Machine
<1>2. flawed' = TRUE /\ UNCHANGED <<op, phase, prior, wanted>>
  BY DEF RestoreFails, argVars
<1>3. ASSUME NEW c \in Call, NEW s \in Seq(Call), todo = Cons(c, s),
             c \in {"start", "restart"} => prior.active = "active"
      PROVE  /\ Quiet' /\ machine'.preinstall = machine.preinstall /\ ~CannotFail(c)
             /\ todo' = IF c = "disable" /\ prior.enabled # "disabled" THEN Tail(s) ELSE s
  <2>1. /\ Head(todo) = c /\ Tail(todo) = s /\ machine'.preinstall = machine.preinstall
        /\ ~CannotFail(c)
        /\ c \notin {"start", "restart"} => machine'.active = machine.active
    BY <1>1, <1>3, FailsAt
  <2>2. todo' = IF c = "disable" /\ prior.enabled # "disabled" THEN Tail(s) ELSE s
    BY <2>1 DEF RestoreFails
  <2>3. Quiet'
    BY <1>1, <1>2, <1>3, <2>1 DEF Quiet, Installed
  <2> QED
    BY <2>1, <2>2, <2>3
<1>4. CASE Resuming
  <2>1. Installed(prior) /\ Rest' = Rest /\ Installed(prior)'
    BY <1>2, <1>4 DEF Resuming, Rest, Installed
  <2>2. /\ Quiet'
        /\ \/ todo' = Activate(prior, Rest)
           \/ prior.active = "active" /\ todo' = Cons("restart", Rest)
           \/ todo' = Rest
    <3>1. CASE Disabling
      <4>1. Quiet' /\ todo' = IF prior.enabled # "disabled" THEN Tail(EnableAgain(prior, Rest))
                                                            ELSE EnableAgain(prior, Rest)
        BY <1>3, <3>1, RestTyped DEF Disabling
      <4>2. prior.enabled # "disabled" => Tail(EnableAgain(prior, Rest)) = Activate(prior, Rest)
        BY <1>1, RestTyped, ConsFacts DEF EnableAgain
      <4> QED
        BY <1>1, <4>1, <4>2, <2>1 DEF EnableAgain
    <3>2. CASE Enabling
      BY <1>3, <3>2, RestTyped DEF Enabling
    <3>3. CASE Activating
      BY <1>3, <3>3, RestTyped DEF Activating, Activate
    <3> QED
      BY <1>4, <3>1, <3>2, <3>3 DEF Resuming
  <2>3. CASE todo' = Rest
    <3>1. Restored'
      BY <1>1, <1>2, <2>3 DEF Restored, Rest
    <3> QED
      BY <1>1, <1>2, <2>2, <2>3, <3>1, RestTyped DEF InstallInv, Restoring, Installed
  <2>4. CASE \/ todo' = Activate(prior, Rest)
             \/ prior.active = "active" /\ todo' = Cons("restart", Rest)
    <3>1. Activating'
      BY <1>2, <2>1, <2>2, <2>4 DEF Activating
    <3> QED
      BY <1>1, <1>2, <2>1, <2>2, <2>4, <3>1, RestTyped DEF InstallInv, Resuming, Installed
  <2> QED
    BY <2>2, <2>3, <2>4
<1>5. CASE Neutralizing /\ todo # PutBack(prior)
  <2>1. /\ Quiet' /\ machine'.preinstall = machine.preinstall
        /\ todo' \in {Cons("neutralize disable", PutBack(prior)), PutBack(prior)}
    BY <1>1, <1>3, <1>5 DEF Neutralizing, BackTyped
  <2>2. Neutralizing'
    BY <1>2, <1>5, <2>1 DEF Neutralizing, Keepsake
  <2> QED
    BY <1>1, <1>2, <2>1, <2>2 DEF InstallInv, Restoring, Installed, BackTyped
<1>6. CASE todo \in {PutBack(prior), Cons("drop preinstall", UnitBack(prior))}
  <2>1. Quiet' /\ todo' \in {Cons("drop preinstall", UnitBack(prior)), UnitBack(prior)}
    BY <1>1, <1>3, <1>6 DEF BackTyped, PutBack
  <2>2. PuttingBack'
    BY <1>2, <2>1 DEF PuttingBack
  <2> QED
    BY <1>1, <1>2, <2>1, <2>2 DEF InstallInv, Restoring, Installed, BackTyped
<1>7. CASE todo = UnitBack(prior)
  <2>1. Quiet' /\ todo' = ReloadBack(prior)
    BY <1>1, <1>3, <1>7 DEF BackTyped, UnitBack
  <2>2. Reloading'
    BY <1>2, <2>1 DEF Reloading
  <2> QED
    BY <1>1, <1>2, <2>1, <2>2 DEF InstallInv, Restoring, Installed, BackTyped
<1>8. CASE todo = ReloadBack(prior)
  <2>1. Quiet' /\ todo' = BringBack(prior)
    BY <1>1, <1>3, <1>8 DEF BackTyped, ReloadBack
  <2> QED
    BY <1>1, <1>2, <2>1, Reloaded DEF BackTyped
<1> QED
  BY <1>1, <1>4, <1>5, <1>6, <1>7, <1>8
     DEF InstallInv, Restoring, Neutralizing, PuttingBack, Reloading, Restored

LEMMA InstallCrash ==
  ASSUME Known, op = "install", InstallInv, ServiceCrashes
  PROVE  InstallInv'
<1>1. /\ machine \in Machine /\ machine.active = "active" /\ machine.running \notin Healthy
      /\ machine' = [machine EXCEPT !.active = "failed", !.running = None]
      /\ UNCHANGED <<op, phase, todo, prior, wanted, flawed>>
  BY DEF ServiceCrashes, Known, Sound
<1>2. /\ machine'.unit = machine.unit /\ machine'.loaded = machine.loaded
      /\ machine'.binary = machine.binary /\ machine'.preinstall = machine.preinstall
      /\ machine'.enabled = machine.enabled /\ machine'.active = "failed"
  BY <1>1 DEF Machine
<1>3. Quiet'
  BY <1>1 DEF InstallInv, Quiet, Installed
<1>4. ASSUME NEW v PROVE Settled(v) => Settled(v)'
  BY <1>1, <1>2 DEF Settled, Runs, Installed
<1>5. InPlace => InPlace'
  BY <1>1, <1>2, InPlaceStays
<1>6. Keepsake' = Keepsake /\ Written' = Written /\ Rest' = Rest
  BY <1>1, <1>2 DEF Keepsake, Written, Rest
<1>7. Resuming => Resuming'
  BY <1>1, <1>2, <1>5, <1>6 DEF Resuming, Disabling, Enabling, Activating, Installed
<1>8. Installing => Installing'
  <2>1. Finishing => Finishing'
    BY <1>1, <1>4, <1>6 DEF Finishing
  <2>2. NothingToDo => NothingToDo'
    BY <1>1, <1>2 DEF NothingToDo, Same, Steady
  <2>3. /\ Keeping => Keeping'
        /\ WritingUnit => WritingUnit'
        /\ WritingBinary => WritingBinary'
        /\ Loading => Loading'
        /\ StartingAfresh => StartingAfresh'
    BY <1>1, <1>2, <1>6
       DEF Keeping, WritingUnit, WritingBinary, Loading, StartingAfresh, Installed
  <2> QED
    BY <2>1, <2>2, <2>3 DEF Installing
<1>9. Restoring => Restoring'
  <2>1. Restored => Restored'
    BY <1>1, <1>4, <1>5 DEF Restored
  <2>2. /\ Neutralizing => Neutralizing'
        /\ PuttingBack => PuttingBack'
        /\ Reloading => Reloading'
    BY <1>1, <1>2, <1>6 DEF Neutralizing, PuttingBack, Reloading
  <2> QED
    BY <2>1, <2>2 DEF Restoring
<1> QED
  BY <1>1, <1>3, <1>7, <1>8, <1>9 DEF InstallInv, Installed

LEMMA InstallBeginsWell ==
  ASSUME Known, op = "none", phase = "forward", NEW v \in Version, NEW u \in Unit, BeginInstall(v, u)
  PROVE  op' = "install" /\ phase' = "forward" /\ InstallInv' /\ todo' \in Seq(Call)
<1>1. /\ op' = "install" /\ prior' = machine /\ UNCHANGED <<machine, phase, flawed>>
      /\ wanted'.version = v /\ wanted'.unit = u
      /\ todo' = IF Same(machine, v, u) THEN <<>> ELSE Install(machine, u)
      /\ Installed(machine) => machine.active # "failed"
  BY DEF BeginInstall, Begin
<1>2. CASE Same(machine, v, u)
  <2>1. NothingToDo'
    BY <1>1, <1>2 DEF NothingToDo, Same, Steady
  <2> QED
    BY <1>1, <1>2, <2>1, OneFacts DEF InstallInv, Installing, Quiet, Installed
<1>3. CASE ~Same(machine, v, u)
  <2>1. todo' = IF machine.binary # None THEN Cons("keep preinstall", Write(machine, u))
                                         ELSE Write(machine, u)
    BY <1>1, <1>3, InstallBegins
  <2>2. Keeping' \/ WritingUnit'
    BY <1>1, <2>1 DEF Keeping, WritingUnit, Keepsake
  <2>3. todo' \in Seq(Call)
    <3>1. "keep preinstall" \in Call /\ Write(machine, u) \in Seq(Call)
      BY ListsTyped DEF Call
    <3> QED
      BY <2>1, <3>1, ConsFacts
  <2> QED
    BY <1>1, <2>2, <2>3 DEF InstallInv, Installing, Quiet, Installed
<1> QED
  BY <1>1, <1>2, <1>3

-----------------------------------------------------------------------------
(* An update, stage by stage. *)

UpdateTyped ==
  /\ "keep rollback" \in Call /\ "write marker" \in Call /\ "write binary" \in Call
  /\ "reset-failed" \in Call /\ "restart" \in Call /\ "verify" \in Call
  /\ "stop" \in Call /\ "copy rollback" \in Call /\ "forget" \in Call /\ <<>> \in Seq(Call)
  /\ Try(prior) \in Seq(Call) /\ Cons("write binary", Try(prior)) \in Seq(Call)
  /\ Cons("write marker", Cons("write binary", Try(prior))) \in Seq(Call)
  /\ Revert \in Seq(Call)
  /\ \A s \in Seq(Call) :
       /\ Again(s) \in Seq(Call)
       /\ Cons("verify", s) \in Seq(Call) /\ Cons("restart", Cons("verify", s)) \in Seq(Call)
  /\ One("forget") \in Seq(Call) /\ One("verify") \in Seq(Call)

LEMMA UpdateIsTyped == UpdateTyped
<1>1. /\ "keep rollback" \in Call /\ "write marker" \in Call /\ "write binary" \in Call
      /\ "reset-failed" \in Call /\ "restart" \in Call /\ "verify" \in Call
      /\ "stop" \in Call /\ "copy rollback" \in Call /\ "forget" \in Call
  BY DEF Call
<1> QED
  BY <1>1, ListsTyped, OneFacts, ConsFacts DEF UpdateTyped

LEMMA UpdatingSucceeds ==
  ASSUME Known, op = "update", phase = "forward", UpdateInv, Succeed
  PROVE  UpdateInv'
<1> SUFFICES ASSUME Steady(prior) PROVE UpdateInv'
  BY DEF Succeed, argVars, UpdateInv, Steady
<1>1. /\ prior \in Machine /\ machine.unit = prior.unit /\ machine.enabled = prior.enabled
      /\ Updating /\ UpdateTyped
  BY UpdateIsTyped DEF Known, Sound, UpdateInv
<1>2. /\ UNCHANGED <<op, phase, prior, wanted>> /\ todo # <<>>
  BY DEF Succeed, Busy, argVars
<1>3. (machine'.unit = prior.unit /\ machine'.enabled = prior.enabled /\ Updating') => UpdateInv'
  BY <1>2 DEF UpdateInv
<1>4. CASE Untouched /\ prior.binary # None
           /\ todo = Cons("keep rollback", Cons("write marker", Cons("write binary", Try(prior))))
  <2>1. /\ todo' = Cons("write marker", Cons("write binary", Try(prior)))
        /\ Changes(machine, "keep rollback", machine')
    BY <1>1, <1>4, SucceedAt DEF UpdateTyped
  <2>2. /\ machine'.unit = machine.unit /\ machine'.enabled = machine.enabled
        /\ machine'.binary = machine.binary /\ machine'.rollback = machine.binary
        /\ machine'.active = machine.active /\ machine'.running = machine.running
    BY <2>1 DEF Changes, Stops, Disables
  <2> QED
    BY <1>1, <1>2, <1>3, <1>4, <2>1, <2>2 DEF Updating, Untouched, Runs
<1>5. CASE Untouched /\ prior.binary # None /\ machine.rollback = prior.binary
           /\ todo = Cons("write marker", Cons("write binary", Try(prior)))
  <2>1. /\ todo' = Cons("write binary", Try(prior))
        /\ Changes(machine, "write marker", machine')
    BY <1>1, <1>5, SucceedAt DEF UpdateTyped
  <2>2. /\ machine'.unit = machine.unit /\ machine'.enabled = machine.enabled
        /\ machine'.binary = machine.binary /\ machine'.rollback = machine.rollback
        /\ machine'.marker = prior.active
        /\ machine'.active = machine.active /\ machine'.running = machine.running
    BY <2>1 DEF Changes, Stops, Disables
  <2> QED
    BY <1>1, <1>2, <1>3, <1>5, <2>1, <2>2 DEF Updating, Untouched, Saved, Runs
<1>6. CASE Untouched /\ Saved /\ todo = Cons("write binary", Try(prior))
  <2>1. todo' = Try(prior) /\ Changes(machine, "write binary", machine')
    BY <1>1, <1>6, SucceedAt DEF UpdateTyped
  <2>2. /\ machine'.unit = machine.unit /\ machine'.enabled = machine.enabled
        /\ machine'.binary = wanted.version /\ machine'.rollback = machine.rollback
        /\ machine'.marker = machine.marker /\ machine'.active = machine.active
    BY <2>1 DEF Changes, Stops, Disables
  <2>3. Trying'
    BY <1>1, <1>2, <1>6, <2>1, <2>2 DEF Trying, Saved, Try
  <2> QED
    BY <1>1, <1>2, <1>3, <2>2, <2>3 DEF Updating
<1>7. CASE Trying
  <2>1. prior.active = "active"
    BY <1>2, <1>7 DEF Trying
  <2>2. ASSUME NEW c \in {"reset-failed", "restart", "verify"}, Changes(machine, c, machine')
        PROVE  /\ machine'.unit = machine.unit /\ machine'.enabled = machine.enabled
               /\ machine'.binary = machine.binary /\ machine'.rollback = machine.rollback
               /\ machine'.marker = machine.marker
               /\ c = "restart" => machine'.active = "active" /\ machine'.running = machine.binary
               /\ c = "verify" =>
                    machine'.active = machine.active /\ machine'.running = machine.running
    BY <2>2 DEF Changes, Stops, Disables
  <2>3. CASE todo = Again(<<>>)
    <3>1. /\ todo' = Cons("restart", One("verify")) /\ Changes(machine, "reset-failed", machine')
      BY <1>1, <2>3, SucceedAt DEF UpdateTyped, Again, One
    <3> QED
      BY <1>1, <1>2, <1>3, <1>7, <2>1, <2>2, <3>1 DEF Updating, Trying, Saved
  <2>4. CASE todo = Cons("restart", One("verify"))
    <3>1. /\ todo' = One("verify") /\ Changes(machine, "restart", machine')
      BY <1>1, <2>4, SucceedAt DEF UpdateTyped
    <3> QED
      BY <1>1, <1>2, <1>3, <1>7, <2>1, <2>2, <3>1 DEF Updating, Trying, Saved, Runs
  <2>5. CASE todo = One("verify") /\ Runs(wanted.version)
    <3>1. /\ todo' = <<>> /\ Changes(machine, "verify", machine')
      BY <1>1, <2>5, SucceedAt DEF UpdateTyped, One
    <3> QED
      BY <1>1, <1>2, <1>3, <1>7, <2>1, <2>2, <2>5, <3>1 DEF Updating, Trying, Saved, Runs
  <2> QED
    BY <1>2, <1>7, <2>1, <2>3, <2>4, <2>5 DEF Trying
<1> QED
  BY <1>1, <1>4, <1>5, <1>6, <1>7 DEF Updating, Untouched

(* The version before: still kept for a steady service. *)
LEMMA UpdateTurnsBack ==
  ASSUME Known, op = "update", UpdateInv, UpdateFails
  PROVE  op' = "update" => UpdateInv' /\ todo' \in Seq(Call) /\ phase' = "recovery"
<1> SUFFICES ASSUME op' = "update"
             PROVE  UpdateInv' /\ todo' \in Seq(Call) /\ phase' = "recovery"
  OBVIOUS
<1>1. /\ phase = "forward" /\ Fails /\ todo # <<>> /\ UpdateTyped
      /\ Head(todo) \notin {"keep rollback", "write marker", "write binary"}
  BY UpdateIsTyped DEF UpdateFails, End, Return, Fails, Busy
<1>2. /\ phase' = "recovery" /\ todo' = RestoreUpdate(machine) /\ UNCHANGED <<prior, wanted>>
  BY <1>1 DEF UpdateFails, End, Return, Recover, argVars
<1>3. ASSUME Steady(prior)
      PROVE  /\ machine'.unit = prior.unit /\ machine'.enabled = prior.enabled
             /\ Reverting'
  <2>1. Updating /\ machine.unit = prior.unit /\ machine.enabled = prior.enabled
    BY <1>1, <1>3 DEF UpdateInv
  <2>2. ~Untouched
    <3>1. ASSUME NEW c \in {"keep rollback", "write marker", "write binary"}, NEW s \in Seq(Call)
          PROVE  todo # Cons(c, s)
      <4>1. c \in Call
        BY <1>1 DEF UpdateTyped
      <4>2. Head(Cons(c, s)) = c
        BY <4>1, ConsFacts
      <4> QED
        BY <1>1, <4>2
    <3> QED
      BY <1>1, <3>1 DEF Untouched, UpdateTyped
  <2>3. Trying /\ prior.active = "active"
    BY <1>1, <2>1, <2>2 DEF Updating, Trying
  <2>4. PICK c \in {"reset-failed", "restart", "verify"}, s \in Seq(Call) : todo = Cons(c, s)
    BY <1>1, <2>3 DEF Trying, UpdateTyped, Again, One
  <2>5. /\ machine'.unit = machine.unit /\ machine'.enabled = machine.enabled
        /\ machine'.rollback = machine.rollback
    BY <1>1, <2>4, FailsAt DEF UpdateTyped
  <2>6. prior.binary # None
    BY <1>3, <2>3, LifecycleAssumption DEF Steady
  <2>7. machine.rollback = prior.binary /\ machine.marker = "active"
    BY <2>3, <2>6 DEF Trying, Saved
  <2>8. todo' = Cons("stop", Revert)
    BY <1>2, <2>7, RestoreUpdateBegins
  <2> QED
    BY <1>2, <2>1, <2>3, <2>5, <2>7, <2>8 DEF Reverting
<1> QED
  BY <1>2, <1>3, RestoreUpdateBegins DEF UpdateInv, Steady

LEMMA RevertingSucceeds ==
  ASSUME Known, op = "update", phase = "recovery", UpdateInv, Succeed
  PROVE  UpdateInv'
<1> SUFFICES ASSUME Steady(prior) PROVE UpdateInv'
  BY DEF Succeed, argVars, UpdateInv, Steady
<1>1. /\ prior \in Machine /\ machine.unit = prior.unit /\ machine.enabled = prior.enabled
      /\ Reverting /\ UpdateTyped /\ prior.active = "active"
  BY UpdateIsTyped DEF Known, Sound, UpdateInv, Reverting
<1>2. /\ UNCHANGED <<op, phase, prior, wanted>> /\ todo # <<>>
  BY DEF Succeed, Busy, argVars
<1>3. (machine'.unit = prior.unit /\ machine'.enabled = prior.enabled /\ Reverting') => UpdateInv'
  BY <1>2 DEF UpdateInv
<1>4. CASE todo = Cons("stop", Revert) /\ machine.rollback = prior.binary
  <2>1. todo' = Revert /\ Changes(machine, "stop", machine')
    BY <1>1, <1>4, SucceedAt DEF UpdateTyped
  <2>2. /\ machine'.unit = machine.unit /\ machine'.enabled = machine.enabled
        /\ machine'.rollback = machine.rollback
    BY <2>1 DEF Changes, Disables
  <2> QED
    BY <1>1, <1>2, <1>3, <1>4, <2>1, <2>2 DEF Reverting
<1>5. CASE todo = Revert /\ machine.rollback = prior.binary
  <2>1. todo' = Again(One("forget")) /\ Changes(machine, "copy rollback", machine')
    BY <1>1, <1>5, SucceedAt DEF UpdateTyped, Revert
  <2>2. /\ machine'.unit = machine.unit /\ machine'.enabled = machine.enabled
        /\ machine'.binary = machine.rollback
    BY <2>1 DEF Changes, Disables
  <2> QED
    BY <1>1, <1>2, <1>3, <1>5, <2>1, <2>2 DEF Reverting
<1>6. ASSUME NEW c \in {"reset-failed", "restart", "verify", "forget"}, Changes(machine, c, machine')
      PROVE  /\ machine'.unit = machine.unit /\ machine'.enabled = machine.enabled
             /\ machine'.binary = machine.binary
             /\ c = "restart" => machine'.active = "active" /\ machine'.running = machine.binary
             /\ c \in {"verify", "forget"} =>
                  machine'.active = machine.active /\ machine'.running = machine.running
  BY <1>6 DEF Changes, Stops, Disables
<1>7. CASE machine.binary = prior.binary /\ todo = Again(One("forget"))
  <2>1. /\ todo' = Cons("restart", Cons("verify", One("forget")))
        /\ Changes(machine, "reset-failed", machine')
    BY <1>1, <1>7, SucceedAt DEF UpdateTyped, Again
  <2> QED
    BY <1>1, <1>2, <1>3, <1>6, <1>7, <2>1 DEF Reverting
<1>8. CASE machine.binary = prior.binary /\ todo = Cons("restart", Cons("verify", One("forget")))
  <2>1. todo' = Cons("verify", One("forget")) /\ Changes(machine, "restart", machine')
    BY <1>1, <1>8, SucceedAt DEF UpdateTyped
  <2> QED
    BY <1>1, <1>2, <1>3, <1>6, <1>8, <2>1 DEF Reverting, Runs
<1>9. CASE machine.binary = prior.binary /\ Runs(prior.binary) /\ todo = Cons("verify", One("forget"))
  <2>1. todo' = One("forget") /\ Changes(machine, "verify", machine')
    BY <1>1, <1>9, SucceedAt DEF UpdateTyped
  <2> QED
    BY <1>1, <1>2, <1>3, <1>6, <1>9, <2>1 DEF Reverting, Runs
<1>10. CASE machine.binary = prior.binary /\ Runs(prior.binary) /\ todo = One("forget")
  <2>1. todo' = <<>> /\ Changes(machine, "forget", machine')
    BY <1>1, <1>10, SucceedAt DEF UpdateTyped, One
  <2> QED
    BY <1>1, <1>2, <1>3, <1>6, <1>10, <2>1 DEF Reverting, Runs
<1> QED
  BY <1>1, <1>2, <1>4, <1>5, <1>7, <1>8, <1>9, <1>10 DEF Reverting

LEMMA UpdateCrash ==
  ASSUME Known, op = "update", UpdateInv, ServiceCrashes
  PROVE  UpdateInv'
<1>1. /\ machine \in Machine /\ machine.active = "active" /\ machine.running \notin Healthy
      /\ machine' = [machine EXCEPT !.active = "failed", !.running = None]
      /\ UNCHANGED <<op, phase, todo, prior, wanted, flawed>>
  BY DEF ServiceCrashes, Known, Sound
<1>2. /\ machine'.unit = machine.unit /\ machine'.enabled = machine.enabled
      /\ machine'.binary = machine.binary /\ machine'.rollback = machine.rollback
      /\ machine'.marker = machine.marker /\ machine'.active = "failed"
  BY <1>1 DEF Machine
<1>3. ASSUME NEW v PROVE Runs(v) => Runs(v)'
  BY <1>1 DEF Runs
<1>4. Updating => Updating'
  <2>1. Untouched => Untouched'
    BY <1>1, <1>2, <1>3 DEF Untouched, Saved
  <2>2. Trying => Trying'
    BY <1>1, <1>2, <1>3 DEF Trying, Saved
  <2> QED
    BY <1>1, <2>1, <2>2 DEF Updating
<1>5. Reverting => Reverting'
  BY <1>1, <1>2, <1>3 DEF Reverting
<1> QED
  BY <1>1, <1>2, <1>4, <1>5 DEF UpdateInv, Steady

LEMMA UpdateBeginsWell ==
  ASSUME Known, op = "none", phase = "forward", NEW v \in Version, BeginUpdate(v)
  PROVE  op' = "update" /\ phase' = "forward" /\ UpdateInv' /\ todo' \in Seq(Call)
<1>1. /\ op' = "update" /\ prior' = machine /\ UNCHANGED <<machine, phase, flawed>>
      /\ wanted'.version = v /\ todo' = Update(machine)
  BY DEF BeginUpdate, Begin
<1>2. /\ "keep rollback" \in Call /\ "write marker" \in Call /\ "write binary" \in Call
      /\ Try(machine) \in Seq(Call)
  BY ListsTyped DEF Call
<1>3. todo' \in Seq(Call)
  BY <1>1, <1>2, UpdateBegins, ConsFacts
<1>4. Steady(machine) => Untouched'
  BY <1>1, UpdateBegins DEF Untouched, Saved, Runs, Steady
<1> QED
  BY <1>1, <1>3, <1>4 DEF UpdateInv, Updating, Steady

-----------------------------------------------------------------------------
(* A rollback, stage by stage. *)

RollbackTyped ==
  /\ "reset-failed" \in Call /\ "set aside" \in Call /\ "swap in" \in Call
  /\ "restart" \in Call /\ "verify" \in Call /\ "forget" \in Call /\ <<>> \in Seq(Call)
  /\ One("forget") \in Seq(Call) /\ Cons("verify", One("forget")) \in Seq(Call)
  /\ \A p : /\ Run(p) \in Seq(Call) /\ Cons("swap in", Run(p)) \in Seq(Call)
            /\ Cons("set aside", Cons("swap in", Run(p))) \in Seq(Call)

LEMMA RollbackIsTyped == RollbackTyped
<1>1. /\ "reset-failed" \in Call /\ "set aside" \in Call /\ "swap in" \in Call
      /\ "restart" \in Call /\ "verify" \in Call /\ "forget" \in Call
  BY DEF Call
<1> QED
  BY <1>1, ListsTyped, OneFacts, ConsFacts DEF RollbackTyped

LEMMA RollbackSucceeds ==
  ASSUME Known, op = "rollback", RollbackInv, Succeed
  PROVE  RollbackInv'
<1>1. phase = "forward" /\ machine.enabled = prior.enabled /\ RollbackTyped
  BY RollbackIsTyped DEF RollbackInv
<1>2. /\ UNCHANGED <<op, phase, prior, wanted>> /\ todo # <<>>
  BY DEF Succeed, Busy, argVars
<1>3. machine'.enabled = machine.enabled /\ Idle' /\ (Exchanging' \/ Exchanged') => RollbackInv'
  BY <1>1, <1>2 DEF RollbackInv
<1>11. ASSUME machine'.running = machine.running PROVE Idle'
  <2>1. Sound(machine) /\ Sound(machine')
    BY SoundStays DEF Known
  <2> QED
    BY <1>2, <1>11, <2>1 DEF Sound, Idle, RollbackInv
<1>4. ASSUME NEW c \in {"reset-failed", "set aside", "swap in", "restart", "verify", "forget"},
             Changes(machine, c, machine')
      PROVE  /\ machine'.enabled = machine.enabled
             /\ c \in {"reset-failed", "set aside"} => machine'.rollback = machine.rollback
             /\ c = "swap in" => machine'.binary = machine.rollback
             /\ c \in {"restart", "verify", "forget"} => machine'.binary = machine.binary
             /\ c = "restart" => machine'.active = "active" /\ machine'.running = machine.binary
             /\ c \in {"verify", "forget"} => machine'.active = machine.active
             /\ c # "restart" => machine'.running = machine.running
  BY <1>4 DEF Changes, Stops, Disables
<1>5. CASE Exchanging
           /\ todo = Cons("reset-failed", Cons("set aside", Cons("swap in", Run(prior))))
  <2>1. /\ todo' = Cons("set aside", Cons("swap in", Run(prior)))
        /\ Changes(machine, "reset-failed", machine')
    BY <1>1, <1>5, SucceedAt DEF RollbackTyped
  <2> QED
    BY <1>2, <1>3, <1>4, <1>5, <1>11, <2>1 DEF Exchanging
<1>6. CASE Exchanging /\ todo = Cons("set aside", Cons("swap in", Run(prior)))
  <2>1. todo' = Cons("swap in", Run(prior)) /\ Changes(machine, "set aside", machine')
    BY <1>1, <1>6, SucceedAt DEF RollbackTyped
  <2> QED
    BY <1>2, <1>3, <1>4, <1>6, <1>11, <2>1 DEF Exchanging
<1>7. CASE Exchanging /\ todo = Cons("swap in", Run(prior))
  <2>1. todo' = Run(prior) /\ Changes(machine, "swap in", machine')
    BY <1>1, <1>7, SucceedAt DEF RollbackTyped
  <2> QED
    BY <1>2, <1>3, <1>4, <1>7, <1>11, <2>1 DEF Exchanging, Exchanged
<1>8. CASE Exchanged /\ todo = Run(prior) /\ prior.marker = "active"
  <2>1. todo' = Cons("verify", One("forget")) /\ Changes(machine, "restart", machine')
    BY <1>1, <1>8, SucceedAt DEF RollbackTyped, Run
  <2> QED
    BY <1>2, <1>3, <1>4, <1>8, <2>1 DEF Exchanged, Runs, RunsNoOther, Idle
<1>9. CASE /\ machine.binary = prior.rollback
           /\ prior.marker = "active" => Runs(prior.rollback) /\ RunsNoOther(prior.rollback)
           /\ todo = Cons("verify", One("forget"))
  <2>1. todo' = One("forget") /\ Changes(machine, "verify", machine')
    BY <1>1, <1>9, SucceedAt DEF RollbackTyped
  <2> QED
    BY <1>2, <1>3, <1>4, <1>9, <1>11, <2>1 DEF Exchanged, Runs, RunsNoOther
<1>10. CASE /\ machine.binary = prior.rollback
            /\ prior.marker = "active" => Runs(prior.rollback) /\ RunsNoOther(prior.rollback)
            /\ todo = One("forget")
  <2>1. todo' = <<>> /\ Changes(machine, "forget", machine')
    BY <1>1, <1>10, SucceedAt DEF RollbackTyped, One
  <2> QED
    BY <1>2, <1>3, <1>4, <1>10, <1>11, <2>1 DEF Exchanged, Runs, RunsNoOther
<1> QED
  BY <1>2, <1>5, <1>6, <1>7, <1>8, <1>9, <1>10 DEF RollbackInv, Exchanging, Exchanged, Run

LEMMA RollbackCrash ==
  ASSUME Known, op = "rollback", RollbackInv, ServiceCrashes
  PROVE  RollbackInv'
<1>1. /\ machine \in Machine /\ machine.active = "active" /\ machine.running \notin Healthy
      /\ machine' = [machine EXCEPT !.active = "failed", !.running = None]
      /\ UNCHANGED <<op, phase, todo, prior, wanted, flawed>>
  BY DEF ServiceCrashes, Known, Sound
<1>2. /\ machine'.enabled = machine.enabled
      /\ machine'.binary = machine.binary /\ machine'.rollback = machine.rollback
  BY <1>1 DEF Machine
<1>3. /\ Runs(prior.rollback) => Runs(prior.rollback)'
      /\ RunsNoOther(prior.rollback)' /\ Idle'
  BY <1>1 DEF Runs, RunsNoOther, Idle, Machine
<1> QED
  BY <1>1, <1>2, <1>3 DEF RollbackInv, Exchanging, Exchanged

LEMMA RollbackBeginsWell ==
  ASSUME Known, op = "none", phase = "forward", BeginRollback
  PROVE  op' = "rollback" /\ phase' = "forward" /\ RollbackInv' /\ todo' \in Seq(Call)
<1>1. /\ op' = "rollback" /\ prior' = machine /\ UNCHANGED <<machine, phase, flawed>>
      /\ todo' = Rollback(machine)
  BY DEF BeginRollback, Begin
<1>2. Exchanging'
  BY <1>1, RollbackBegins DEF Exchanging
<1>3. todo' \in Seq(Call)
  BY <1>1, RollbackBegins, RollbackIsTyped, ConsFacts DEF RollbackTyped
<1> QED
  BY <1>1, <1>2, <1>3 DEF RollbackInv, Idle

-----------------------------------------------------------------------------
(* The invariant. *)

LEMMA BareIsSound ==
  Sound(Bare) /\ Nothing \in [version : Version \cup {None}, unit : Unit \cup {None}]
  BY DEF Sound, Bare, Machine, Nothing

LEMMA InitIInv == Init => IInv
<1> SUFFICES ASSUME Init PROVE IInv
  OBVIOUS
<1>1. Sound(machine) /\ Sound(prior)
  BY BareIsSound DEF Init
<1>2. wanted \in [version : Version \cup {None}, unit : Unit \cup {None}]
  BY BareIsSound DEF Init
<1>3. interrupts \in 0..MaxInterrupts
  BY LifecycleAssumption DEF Init
<1>4. todo \in Seq(Call)
  BY OneFacts DEF Init
<1> QED
  BY <1>1, <1>2, <1>3, <1>4 DEF Init, IInv, Known

(* What does not depend on the command: types, and a list that is one. *)
LEMMA EndKnown ==
  ASSUME Known, NEW result, Return(result), Sound(machine'), interrupts' \in 0..MaxInterrupts
  PROVE  IInv'
  BY BareIsSound, OneFacts DEF Return, IInv, Known, Sound

LEMMA BeginKnown ==
  ASSUME Known, op = "none", phase = "forward", NEW command, NEW calls, Begin(command, calls),
         command \in {"install", "update", "rollback", "uninstall"} \cup Verbs,
         todo' \in Seq(Call),
         wanted' \in [version : Version \cup {None}, unit : Unit \cup {None}]
  PROVE  Known'
  BY DEF Begin, Known, Sound

LEMMA StepIInv == IInv /\ [Next]_vars => IInv'
<1> SUFFICES ASSUME IInv, [Next]_vars PROVE IInv'
  OBVIOUS
<1>1. Known /\ (op = "none" => phase = "forward")
  BY DEF IInv
<1>2. /\ \A v \in Version, u \in Unit :
           [version |-> v, unit |-> u] \in [version : Version \cup {None}, unit : Unit \cup {None}]
      /\ \A v \in Version :
           [version |-> v, unit |-> None] \in [version : Version \cup {None}, unit : Unit \cup {None}]
  OBVIOUS
<1>3. ASSUME NEW v \in Version, NEW u \in Unit, BeginInstall(v, u) PROVE IInv'
  <2>1. op = "none" /\ wanted' = [version |-> v, unit |-> u]
    BY <1>3 DEF BeginInstall, Begin
  <2>2. op' = "install" /\ phase' = "forward" /\ InstallInv' /\ todo' \in Seq(Call)
    BY <1>1, <1>3, <2>1, InstallBeginsWell
  <2>3. Known'
    BY <1>1, <1>2, <1>3, <2>1, <2>2, BeginKnown DEF BeginInstall
  <2> QED
    BY <2>2, <2>3 DEF IInv
<1>4. ASSUME NEW v \in Version, BeginUpdate(v) PROVE IInv'
  <2>1. op = "none" /\ wanted' = [version |-> v, unit |-> None]
    BY <1>4 DEF BeginUpdate, Begin
  <2>2. op' = "update" /\ phase' = "forward" /\ UpdateInv' /\ todo' \in Seq(Call)
    BY <1>1, <1>4, <2>1, UpdateBeginsWell
  <2>3. Known'
    BY <1>1, <1>2, <1>4, <2>1, <2>2, BeginKnown DEF BeginUpdate
  <2> QED
    BY <2>2, <2>3 DEF IInv
<1>5. CASE BeginRollback
  <2>1. op = "none" /\ wanted' = wanted
    BY <1>5 DEF BeginRollback, Begin
  <2>2. op' = "rollback" /\ phase' = "forward" /\ RollbackInv' /\ todo' \in Seq(Call)
    BY <1>1, <1>5, <2>1, RollbackBeginsWell
  <2>3. Known'
    BY <1>1, <1>5, <2>1, <2>2, BeginKnown DEF BeginRollback, Known
  <2> QED
    BY <2>2, <2>3 DEF IInv
<1>6. CASE BeginUninstall
  <2>1. /\ op = "none" /\ wanted' = wanted /\ op' = "uninstall" /\ phase' = phase
        /\ todo' \in Seq(Call)
    BY <1>6, OtherLists DEF BeginUninstall, Begin
  <2>2. Known'
    BY <1>1, <1>6, <2>1, BeginKnown DEF BeginUninstall, Known
  <2> QED
    BY <2>1, <2>2 DEF IInv
<1>7. ASSUME NEW verb \in Verbs, BeginVerb(verb) PROVE IInv'
  <2>1. /\ op = "none" /\ wanted' = wanted /\ op' = verb /\ phase' = phase
        /\ todo' \in Seq(Call)
    BY <1>7, OtherLists DEF BeginVerb, Begin
  <2>2. Known'
    BY <1>1, <1>7, <2>1, BeginKnown DEF BeginVerb, Known
  <2> QED
    BY <2>1, <2>2 DEF IInv, Verbs
<1>8. CASE Succeed
  <2>1. UNCHANGED <<op, phase, prior, wanted, flawed, interrupts>> /\ todo' \in Seq(Call)
    BY <1>1, <1>8, HeadTailProperties DEF Succeed, Busy, argVars, Known
  <2>2. Sound(machine')
    BY <1>1, <1>8, SoundStays
  <2>3. Known' /\ op # "none"
    BY <1>1, <1>8, <2>1, <2>2 DEF Known, Sound, Succeed, Busy
  <2>4. op = "install" => InstallInv'
    BY <1>1, <1>8, InstallingSucceeds, ResumingSucceeds, RestoringSucceeds
       DEF IInv, InstallInv, Known
  <2>5. op = "update" => UpdateInv'
    BY <1>1, <1>8, UpdatingSucceeds, RevertingSucceeds DEF IInv, Known
  <2>6. op = "rollback" => RollbackInv'
    BY <1>1, <1>8, RollbackSucceeds DEF IInv
  <2> QED
    BY <2>1, <2>3, <2>4, <2>5, <2>6 DEF IInv
<1>9. CASE InstallFails
  <2>1. op = "install" /\ phase = "forward" /\ ~flawed /\ Fails
    BY <1>1, <1>9 DEF InstallFails, Known
  <2>2. Sound(machine')
    BY <1>1, <2>1, SoundStays
  <2>3. CASE Head(todo) = "keep preinstall"
    BY <1>1, <1>9, <2>2, <2>3, EndKnown DEF InstallFails, End, Known
  <2>4. CASE Head(todo) # "keep preinstall"
    <3>1. /\ phase' = "recovery" /\ todo' = RestoreInstall(prior) /\ op' = "install"
          /\ UNCHANGED <<prior, wanted, flawed, interrupts>>
      BY <1>9, <2>1, <2>4 DEF InstallFails, Recover, argVars
    <3>2. InstallInv'
      BY <1>1, <1>9, <2>1, <3>1, InstallTurnsBack DEF IInv
    <3>3. todo' \in Seq(Call)
      BY <3>1, RestoreInstallBegins, BackIsTyped, ConsFacts DEF BackTyped
    <3>4. Known'
      BY <1>1, <2>2, <3>1, <3>3 DEF Known, Sound
    <3> QED
      BY <3>1, <3>2, <3>4 DEF IInv
  <2> QED
    BY <2>3, <2>4
<1>10. CASE RestoreFails
  <2>1. /\ op = "install" /\ phase = "recovery" /\ Fails /\ flawed' = TRUE
        /\ UNCHANGED <<op, phase, prior, wanted, interrupts>>
    BY <1>10 DEF RestoreFails, argVars
  <2>2. Sound(machine')
    BY <1>1, <2>1, SoundStays
  <2>3. InstallInv' /\ todo' \in Seq(Call)
    BY <1>1, <1>10, <2>1, RestoreGoesOn DEF IInv
  <2>4. Known'
    BY <1>1, <2>1, <2>2, <2>3 DEF Known, Sound
  <2> QED
    BY <2>1, <2>3, <2>4 DEF IInv
<1>11. CASE UpdateFails
  <2>1. op = "update" /\ phase = "forward" /\ ~flawed /\ Fails
    BY <1>1, <1>11 DEF UpdateFails, Known
  <2>2. Sound(machine')
    BY <1>1, <2>1, SoundStays
  <2>3. CASE End("failed") \/ End("incomplete")
    BY <1>1, <2>2, <2>3, EndKnown DEF End, Known
  <2>4. CASE Recover(RestoreUpdate(machine))
    <3>1. op' = "update" /\ phase' = "recovery" /\ UNCHANGED <<prior, wanted, flawed, interrupts>>
      BY <2>1, <2>4 DEF Recover, argVars
    <3>2. UpdateInv' /\ todo' \in Seq(Call)
      BY <1>1, <1>11, <2>1, <3>1, UpdateTurnsBack DEF IInv
    <3>3. Known'
      BY <1>1, <2>2, <3>1, <3>2 DEF Known, Sound
    <3> QED
      BY <3>1, <3>2, <3>3 DEF IInv
  <2> QED
    BY <1>11, <2>3, <2>4 DEF UpdateFails
<1>12. CASE CommandFails
  <2>1. Sound(machine')
    BY <1>1, <1>12, SoundStays DEF CommandFails
  <2>2. PICK result : End(result)
    BY <1>12 DEF CommandFails
  <2> QED
    BY <1>1, <2>1, <2>2, EndKnown DEF End, Known
<1>13. CASE Finish
  <2>1. PICK result : End(result)
    BY <1>13 DEF Finish
  <2>2. Sound(machine')
    BY <1>1, <1>13 DEF Finish, Known, Sound
  <2> QED
    BY <1>1, <2>1, <2>2, EndKnown DEF End, Known
<1>14. CASE Interrupt
  <2>1. Return("interrupted") /\ interrupts' \in 0..MaxInterrupts
    BY <1>1, <1>14, LifecycleAssumption DEF Interrupt, Known
  <2>2. Sound(machine')
    BY <1>1, <1>14 DEF Interrupt, Known, Sound
  <2> QED
    BY <1>1, <2>1, <2>2, EndKnown
<1>15. CASE ServiceCrashes
  <2>1. /\ Sound(machine')
        /\ UNCHANGED <<op, phase, todo, prior, wanted, flawed, interrupts>>
    BY <1>1, <1>15, SoundStays DEF ServiceCrashes
  <2>2. Known'
    BY <1>1, <2>1 DEF Known, Sound
  <2> QED
    BY <1>1, <1>15, <2>1, <2>2, InstallCrash, UpdateCrash, RollbackCrash DEF IInv
<1>16. CASE UNCHANGED vars
  <2>1. /\ UNCHANGED <<machine, op, phase, todo, prior, wanted, flawed, interrupts>>
    BY <1>16 DEF vars
  <2>2. Known'
    BY <1>1, <2>1 DEF Known, Sound
  <2>3. InstallInv => InstallInv'
    BY <2>1
       DEF InstallInv, Quiet, Resuming, Disabling, Enabling, Activating, InPlace, Rest, Written,
           Keepsake, Installing, NothingToDo, Keeping, WritingUnit, WritingBinary, Loading,
           StartingAfresh, Finishing, Settled, Runs, Restoring, Neutralizing, PuttingBack,
           Reloading, Restored
  <2>4. UpdateInv => UpdateInv'
    BY <2>1 DEF UpdateInv, Updating, Untouched, Saved, Runs, Trying, Reverting
  <2>5. RollbackInv => RollbackInv'
    BY <2>1 DEF RollbackInv, Exchanging, Exchanged, Runs, RunsNoOther, Idle
  <2> QED
    BY <2>1, <2>2, <2>3, <2>4, <2>5 DEF IInv
<1> QED
  BY <1>3, <1>4, <1>5, <1>6, <1>7, <1>8, <1>9, <1>10, <1>11, <1>12, <1>13, <1>14, <1>15, <1>16
     DEF Next

THEOREM LifecycleInvariant == Spec => []IInv
  BY InitIInv, StepIInv, PTL DEF Spec

-----------------------------------------------------------------------------
(* Whatever commands are run, killed or fail (service.go): the machine has *)
(* its type, so that no executable and no unit file is half written, and   *)
(* the list of calls of a command is one.                                  *)
THEOREM LifecycleTypeCorrect == Spec => []TypeOK
<1>1. IInv => TypeOK
  BY DEF IInv, Known, Sound, TypeOK
<1> QED
  BY <1>1, LifecycleInvariant, PTL

(* Which step an end is. *)
LEMMA EndsHow ==
  ASSUME IInv, Next, NEW command, NEW result, Ends(command, result), command # "none"
  PROVE  \/ /\ Finish
            /\ result = IF phase = "forward" THEN "ok"
                        ELSE IF flawed THEN "incomplete" ELSE "restored"
         \/ InstallFails /\ result = "failed" /\ command = "install"
         \/ UpdateFails /\ result \in {"failed", "incomplete"} /\ command = "update"
         \/ CommandFails /\ result = IF command = "update" THEN "incomplete" ELSE "failed"
         \/ Interrupt /\ result = "interrupted"
<1>1. op = command /\ op' = "none" /\ outcome' = result /\ op # "none"
  BY DEF Ends
<1>2. ~(\E v \in Version, u \in Unit : BeginInstall(v, u)) /\ ~(\E v \in Version : BeginUpdate(v))
  BY <1>1 DEF BeginInstall, BeginUpdate, Begin
<1>3. ~BeginRollback /\ ~BeginUninstall /\ ~(\E verb \in Verbs : BeginVerb(verb))
  BY <1>1 DEF BeginRollback, BeginUninstall, BeginVerb, Begin
<1>4. ~Succeed /\ ~RestoreFails /\ ~ServiceCrashes
  BY <1>1 DEF Succeed, RestoreFails, ServiceCrashes
<1>5. InstallFails => result = "failed" /\ command = "install"
  BY <1>1 DEF InstallFails, End, Return, Recover
<1>6. UpdateFails => result \in {"failed", "incomplete"} /\ command = "update"
  BY <1>1 DEF UpdateFails, End, Return, Recover
<1>7. CommandFails => result = IF command = "update" THEN "incomplete" ELSE "failed"
  BY <1>1 DEF CommandFails, End, Return
<1>8. Interrupt => result = "interrupted"
  BY <1>1 DEF Interrupt, Return
<1>9. Finish => result = IF phase = "forward" THEN "ok"
                         ELSE IF flawed THEN "incomplete" ELSE "restored"
  BY <1>1 DEF Finish, End, Return
<1> QED
  BY <1>2, <1>3, <1>4, <1>5, <1>6, <1>7, <1>8, <1>9 DEF Next

(* Every installation that ends as restored or ok left the service as it   *)
(* was, or with the version and the unit that were asked for.              *)
THEOREM InstallIsATransaction == Spec => InstallTransactional
<1> DEFINE P == /\ (Ends("install", "restored") /\ Steady(prior)) =>
                     (SameService(machine', prior) /\ machine'.loaded = prior.unit)
                /\ Ends("install", "ok") =>
                     /\ Same(machine', wanted.version, wanted.unit)
                     /\ Installed(prior) => machine'.enabled = prior.enabled
                     /\ (Installed(prior) /\ Steady(prior) /\ wanted.version \in Healthy) =>
                          (machine'.active = prior.active /\ Steady(machine'))
<1>1. ASSUME IInv, Next, Ends("install", "restored"), Steady(prior)
      PROVE  SameService(machine', prior) /\ machine'.loaded = prior.unit
  <2>1. Finish /\ phase = "recovery" /\ ~flawed
    BY <1>1, EndsHow DEF IInv, Known
  <2>2. /\ op = "install" /\ todo = <<>> /\ machine' = machine /\ InstallInv
        /\ Sound(machine) /\ Sound(prior)
    BY <1>1, <2>1 DEF Finish, IInv, Known, Ends
  <2>3. Restored
    <3>1. ~Resuming
      BY <2>2, RestTyped, ConsFacts
         DEF Resuming, Disabling, Enabling, Activating, Activate
    <3>2. \A c \in Call, s \in Seq(Call) : todo # Cons(c, s)
      BY <2>2, ConsFacts
    <3>3. ~Neutralizing
      BY <3>2, BackIsTyped DEF Neutralizing, BackTyped, PutBack
    <3>4. ~PuttingBack /\ ~Reloading
      BY <3>2, BackIsTyped DEF PuttingBack, Reloading, BackTyped, UnitBack, ReloadBack
    <3> QED
      BY <2>1, <2>2, <3>1, <3>3, <3>4 DEF InstallInv, Restoring
  <2>4. /\ machine.unit = prior.unit /\ machine.binary = prior.binary
        /\ machine.loaded = prior.unit /\ Settled(prior.binary)
    BY <2>1, <2>3 DEF Restored, InPlace
  <2>5. ASSUME Installed(prior)
        PROVE  /\ machine.enabled = prior.enabled /\ machine.active = prior.active
               /\ machine.running = prior.running
    <3>1. CASE prior.active = "active"
      BY <1>1, <2>4, <2>5, <3>1 DEF Settled, Runs, Steady
    <3>2. CASE prior.active # "active"
      <4>1. prior.active = "inactive" /\ machine.active = "inactive"
        BY <2>2, <2>5, <3>2 DEF InstallInv, Quiet, Sound, Machine
      <4> QED
        BY <2>2, <2>4, <2>5, <4>1 DEF Settled, Sound
    <3> QED
      BY <3>1, <3>2
  <2> QED
    BY <2>2, <2>4, <2>5 DEF SameService
<1>2. ASSUME IInv, Next, Ends("install", "ok")
      PROVE  /\ Same(machine', wanted.version, wanted.unit)
             /\ Installed(prior) => machine'.enabled = prior.enabled
             /\ (Installed(prior) /\ Steady(prior) /\ wanted.version \in Healthy) =>
                  (machine'.active = prior.active /\ Steady(machine'))
  <2>1. Finish /\ phase = "forward"
    BY <1>2, EndsHow DEF IInv, Known
  <2>2. /\ op = "install" /\ todo = <<>> /\ machine' = machine /\ InstallInv
        /\ Sound(machine) /\ Sound(prior)
    BY <1>2, <2>1 DEF Finish, IInv, Known, Ends
  <2>3. NothingToDo \/ Finishing
    <3>1. ~Resuming
      BY <2>2, RestTyped, ConsFacts
         DEF Resuming, Disabling, Enabling, Activating, Activate
    <3>2. ~StartingAfresh
      <4>1. /\ "enable" \in Call /\ "reset-failed" \in Call /\ "restart" \in Call
            /\ Final \in Seq(Call) /\ Cons("restart", Final) \in Seq(Call)
            /\ Cons("reset-failed", Cons("restart", Final)) \in Seq(Call)
        BY ListsTyped, ConsFacts DEF Call
      <4> QED
        BY <2>2, <4>1, ConsFacts DEF StartingAfresh, Afresh
    <3>3. /\ "keep preinstall" \in Call /\ "write unit" \in Call /\ "write binary" \in Call
          /\ "daemon-reload" \in Call /\ Bring(prior) \in Seq(Call)
          /\ Write(prior, wanted.unit) \in Seq(Call) /\ Load(prior, wanted.unit) \in Seq(Call)
          /\ Cons("write binary", Load(prior, wanted.unit)) \in Seq(Call)
      BY ListsTyped, ConsFacts DEF Call
    <3>4. ~Keeping /\ ~WritingUnit /\ ~WritingBinary /\ ~Loading
      BY <2>2, <3>3, ConsFacts DEF Keeping, WritingUnit, WritingBinary, Loading, Write
    <3> QED
      BY <2>1, <2>2, <3>1, <3>2, <3>4 DEF InstallInv, Installing
  <2>4. CASE NothingToDo
    BY <2>2, <2>4 DEF NothingToDo
  <2>5. CASE Finishing
    <3>1. Written /\ Settled(wanted.version)
      BY <2>5 DEF Finishing
    <3>2. ASSUME Installed(prior), Steady(prior), wanted.version \in Healthy
          PROVE  machine.active = prior.active /\ Steady(machine)
      <4>1. CASE prior.active = "active"
        BY <3>1, <3>2, <4>1 DEF Settled, Runs, Steady, Written
      <4>2. CASE prior.active # "active"
        <5>1. prior.active = "inactive" /\ machine.active = "inactive"
          BY <2>2, <3>2, <4>2 DEF InstallInv, Quiet, Sound, Machine
        <5> QED
          BY <5>1 DEF Steady
      <4> QED
        BY <4>1, <4>2
    <3> QED
      BY <2>2, <3>1, <3>2 DEF Same, Written, Settled
  <2> QED
    BY <2>3, <2>4, <2>5
<1>3. IInv /\ [Next]_vars => [P]_vars
  BY <1>1, <1>2
<1> QED
  BY <1>3, LifecycleInvariant, PTL DEF Spec, InstallTransactional

(* Every update that ends as ok, failed or restored left the service with  *)
(* the new version, or as it was.                                          *)
THEOREM UpdateIsAllOrNothing == Spec => UpdateAllOrNothing
<1> DEFINE P == /\ (Ends("update", "ok") /\ Steady(prior)) =>
                     /\ machine'.binary = wanted.version
                     /\ (prior.active = "active" /\ wanted.version \in Healthy) => Up(machine')
                     /\ prior.active # "active" => machine'.active = prior.active
                /\ ((Ends("update", "failed") \/ Ends("update", "restored")) /\ Steady(prior)) =>
                     SameService(machine', prior)
<1>1. ASSUME IInv, Next, Ends("update", "ok"), Steady(prior)
      PROVE  /\ machine'.binary = wanted.version
             /\ (prior.active = "active" /\ wanted.version \in Healthy) => Up(machine')
             /\ prior.active # "active" => machine'.active = prior.active
  <2>1. Finish /\ phase = "forward"
    BY <1>1, EndsHow DEF IInv, Known
  <2>2. /\ op = "update" /\ todo = <<>> /\ machine' = machine /\ Updating
    BY <1>1, <2>1 DEF Finish, IInv, Ends, UpdateInv
  <2>3. \A c \in Call, s \in Seq(Call) : todo # Cons(c, s)
    BY <2>2, ConsFacts
  <2>4. ~Untouched
    BY <2>3, UpdateIsTyped DEF Untouched, UpdateTyped
  <2>5. Trying /\ (prior.active = "active" => Runs(wanted.version))
    BY <2>2, <2>3, <2>4, UpdateIsTyped DEF Updating, Trying, UpdateTyped, Again, One
  <2> QED
    BY <2>2, <2>5 DEF Updating, Trying, Runs, Up
<1>2. ASSUME IInv, Next, Ends("update", "restored"), Steady(prior)
      PROVE  SameService(machine', prior)
  <2>1. Finish /\ phase = "recovery"
    BY <1>2, EndsHow DEF IInv, Known
  <2>2. /\ op = "update" /\ todo = <<>> /\ machine' = machine /\ Reverting
        /\ machine.unit = prior.unit /\ machine.enabled = prior.enabled
    BY <1>2, <2>1 DEF Finish, IInv, Ends, UpdateInv
  <2>3. \A c \in Call, s \in Seq(Call) : todo # Cons(c, s)
    BY <2>2, ConsFacts
  <2>4. prior.active = "active" /\ machine.binary = prior.binary /\ Runs(prior.binary)
    BY <2>2, <2>3, UpdateIsTyped DEF Reverting, UpdateTyped, Again, One, Revert
  <2> QED
    BY <1>2, <2>2, <2>4 DEF Runs, Steady, SameService
<1>3. ASSUME IInv, Next, Ends("update", "failed"), Steady(prior)
      PROVE  SameService(machine', prior)
  <2>1. /\ UpdateFails /\ phase = "forward" /\ Fails /\ todo # <<>>
    <3>1. UpdateFails
      BY <1>3, EndsHow
    <3> QED
      BY <3>1 DEF UpdateFails, Fails, Busy
  <2>2. Head(todo) \in {"keep rollback", "write marker", "write binary"}
    BY <1>3, <2>1 DEF UpdateFails, Ends, End, Return, Recover
  <2>3. /\ Updating /\ Known /\ machine.unit = prior.unit /\ machine.enabled = prior.enabled
        /\ prior \in Machine
    BY <1>3, <2>1 DEF IInv, Known, Sound, Ends, UpdateInv
  <2>4. ~Trying
    <3>1. ASSUME NEW c \in {"reset-failed", "restart", "verify"}, NEW s \in Seq(Call)
          PROVE  todo # Cons(c, s)
      <4>1. c \in Call
        BY UpdateIsTyped DEF UpdateTyped
      <4>2. Head(Cons(c, s)) = c
        BY <4>1, ConsFacts
      <4> QED
        BY <2>2, <4>2
    <3> QED
      BY <2>1, <3>1, UpdateIsTyped DEF Trying, UpdateTyped, Again, One
  <2>5. Untouched
    BY <2>3, <2>4 DEF Updating
  <2>6. PICK c \in {"keep rollback", "write marker", "write binary"}, s \in Seq(Call) :
          todo = Cons(c, s)
    BY <2>5, UpdateIsTyped DEF Untouched, UpdateTyped
  <2>7. c \in Call
    BY UpdateIsTyped DEF UpdateTyped
  <2>8. /\ machine'.unit = prior.unit /\ machine'.binary = prior.binary
        /\ machine'.enabled = prior.enabled /\ machine'.active = machine.active
        /\ machine'.running = machine.running
    BY <2>1, <2>3, <2>5, <2>6, <2>7, FailsAt DEF Untouched
  <2>9. machine.active = prior.active /\ machine.running = prior.running
    <3>1. CASE prior.active = "active"
      BY <1>3, <2>5, <3>1 DEF Untouched, Runs, Steady
    <3>2. CASE prior.active # "active"
      BY <2>3, <3>2 DEF Updating, Known, Sound
    <3> QED
      BY <3>1, <3>2
  <2> QED
    BY <2>8, <2>9 DEF SameService
<1>4. IInv /\ [Next]_vars => [P]_vars
  BY <1>1, <1>2, <1>3
<1> QED
  BY <1>4, LifecycleInvariant, PTL DEF Spec, UpdateAllOrNothing

(* A rollback that reports success has put the version before back, has    *)
(* left the enablement, and has brought a version that ran up again.       *)
THEOREM RollbacksRestart == Spec => RollbackRestarts
<1> DEFINE P == Ends("rollback", "ok") =>
                  /\ machine'.binary = prior.rollback
                  /\ machine'.enabled = prior.enabled
                  /\ (prior.marker = "active" /\ prior.rollback \in Healthy) =>
                       (Up(machine') /\ machine'.running = prior.rollback)
<1>1. ASSUME IInv, Next, Ends("rollback", "ok")
      PROVE  /\ machine'.binary = prior.rollback
             /\ machine'.enabled = prior.enabled
             /\ (prior.marker = "active" /\ prior.rollback \in Healthy) =>
                  (Up(machine') /\ machine'.running = prior.rollback)
  <2>1. Finish
    BY <1>1, EndsHow DEF IInv, Known
  <2>2. /\ op = "rollback" /\ todo = <<>> /\ machine' = machine /\ RollbackInv
    BY <1>1, <2>1 DEF Finish, IInv, Ends
  <2>3. \A c \in Call, s \in Seq(Call) : todo # Cons(c, s)
    BY <2>2, ConsFacts
  <2>4. ~Exchanging
    BY <2>3, RollbackIsTyped DEF Exchanging, RollbackTyped
  <2>5. /\ machine.enabled = prior.enabled /\ machine.binary = prior.rollback
        /\ prior.marker = "active" => Runs(prior.rollback)
    BY <2>2, <2>3, <2>4, RollbackIsTyped DEF RollbackInv, Exchanged, RollbackTyped, Run, One
  <2> QED
    BY <2>2, <2>5 DEF Runs, Up
<1>2. IInv /\ [Next]_vars => [P]_vars
  BY <1>1
<1> QED
  BY <1>2, LifecycleInvariant, PTL DEF Spec, RollbackRestarts

(* A rollback that reports success leaves nothing but the version it put   *)
(* back running ("Rollback restores the previous version and its           *)
(* operational state", RollbackRestores), unless it found the service      *)
(* active and the update it undoes had not: the one exception there is.    *)
RollbackRestoresUnlessStarted ==
  [][ Ends("rollback", "ok") /\ machine'.active = "active" =>
        \/ machine'.running = prior.rollback
        \/ prior.active = "active" /\ prior.marker # "active" ]_vars

THEOREM RollbacksRestoreUnlessStarted == Spec => RollbackRestoresUnlessStarted
<1> DEFINE P == Ends("rollback", "ok") /\ machine'.active = "active" =>
                  \/ machine'.running = prior.rollback
                  \/ prior.active = "active" /\ prior.marker # "active"
<1>1. ASSUME IInv, Next, Ends("rollback", "ok"), machine'.active = "active"
      PROVE  \/ machine'.running = prior.rollback
             \/ prior.active = "active" /\ prior.marker # "active"
  <2>1. Finish
    BY <1>1, EndsHow DEF IInv, Known
  <2>2. op = "rollback" /\ todo = <<>> /\ machine' = machine /\ RollbackInv
    BY <1>1, <2>1 DEF Finish, IInv, Ends
  <2>3. \A c \in Call, l \in Seq(Call) : todo # Cons(c, l)
    BY <2>2, ConsFacts
  <2>4. ~Exchanging
    BY <2>3, RollbackIsTyped DEF Exchanging, RollbackTyped
  <2>5. CASE prior.marker = "active"
    <3>1. todo # Run(prior)
      BY <2>3, <2>5, RollbackIsTyped DEF RollbackTyped, Run
    <3>2. RunsNoOther(prior.rollback)
      BY <2>2, <2>4, <2>5, <3>1 DEF RollbackInv, Exchanged
    <3> QED
      BY <1>1, <2>2, <3>2 DEF RunsNoOther
  <2>6. CASE prior.marker # "active"
    BY <1>1, <2>2, <2>6 DEF RollbackInv, Idle
  <2> QED
    BY <2>5, <2>6
<1>2. IInv /\ [Next]_vars => [P]_vars
  BY <1>1
<1> QED
  BY <1>2, LifecycleInvariant, PTL DEF Spec, RollbackRestoresUnlessStarted

=============================================================================
