--------------------------- MODULE MachineProofs ---------------------------
(***************************************************************************)
(* Proofs about the listener and its unit, the first administrator and the *)
(* reset command (modules UnitConfig, FirstRun and Recovery), for every    *)
(* value of their constants; module DataDirProofs has the data directory.  *)
(* At the end: every behaviour of module MCMachine, where the four stand   *)
(* side by side, is one of each of them, so that what is proved about them *)
(* holds there.                                                            *)
(***************************************************************************)
EXTENDS MCMachine, DataDirProofs, TLAPS

(***************************************************************************)
(* The listener: RuntimeIsRecorded is inductive with the types.  Whatever  *)
(* a unit records wins over the environment file, so only the unit decides *)
(* what a start listens at.                                                *)
(***************************************************************************)

(* What module MCMachine assumes of the constants, evaluated there.        *)
ListenerAssumption == UnitConfigAssumption /\ UnitAssumption

-----------------------------------------------------------------------------
(* resolveListener *)

(* A pair of a host and a port makes an address, unless one of them is not *)
(* a host or a port.                                                       *)
LEMMA HostPortResolved ==
  ASSUME UnitConfigAssumption, NEW flags \in Selection, NEW env \in Selection
  PROVE  ResolveHostPort(flags, env) \in Address \cup {Refused}
<1> DEFINE host == First(flags.host, env.host, DefaultHost)
           port == First(flags.port, env.port, DefaultPort)
<1>1. host \in Host \cup {Bad} /\ port \in Port \cup {Bad}
  BY DEF UnitConfigAssumption, Selection, First
<1> HIDE DEF host, port
<1>2. CASE Bad \in {host, port}
  BY <1>2 DEF ResolveHostPort, host, port
<1>3. CASE Bad \notin {host, port}
  <2>1. Join(host, port) \in Address
    BY <1>1, <1>3 DEF Join, Address
  <2>2. ResolveHostPort(flags, env) = Join(host, port)
    BY <1>3 DEF ResolveHostPort, host, port
  <2>3. QED
    BY <2>1, <2>2
<1>4. QED
  BY <1>2, <1>3

LEMMA ListenerResolved ==
  ASSUME UnitConfigAssumption, NEW flags \in Selection, NEW env \in Selection
  PROVE  ResolveListener(flags, env) \in Address \cup {Refused}
<1>1. flags.listen \in Written \cup {Absent, Bad} /\ env.listen \in Written \cup {Absent, Bad}
  BY DEF Selection
<1>2. Written \subseteq Address
  BY DEF UnitConfigAssumption
<1>3. ResolveHostPort(flags, env) \in Address \cup {Refused}
  BY HostPortResolved
<1>4. CASE flags.listen # Absent
  BY <1>1, <1>2, <1>4 DEF ResolveListener
<1>5. CASE flags.listen = Absent /\ (Given(flags) # {} \/ env.listen = Absent)
  BY <1>3, <1>5 DEF ResolveListener
<1>6. CASE flags.listen = Absent /\ ~(Given(flags) # {} \/ env.listen = Absent)
  BY <1>1, <1>2, <1>6 DEF ResolveListener
<1>7. QED
  BY <1>4, <1>5, <1>6

-----------------------------------------------------------------------------
(* What a unit makes a start listen at. *)

LEMMA RecordedAddress ==
  ASSUME NEW u \in Unit
  PROVE  Recorded(u) \in Address /\ (~u.address.padded => Recorded(u) = u.address)
  BY DEF Unit, Address, Recorded, Trimmed, Join

(* The flags of ExecStart outrank the environment file, whatever it says.  *)
LEMMA ExecStartWins ==
  ASSUME ListenerAssumption, NEW u \in Unit, NEW env
  PROVE  ResolveListener(ExecStart(u), env) =
           IF u.form = "listen" THEN u.address ELSE Recorded(u)
<1> DEFINE flags == ExecStart(u)
<1>1. /\ u.address \in Address /\ u.address.host \in Host /\ u.address.port \in Port
      /\ u.address # Absent /\ u.address # Bad
      /\ u.address.host \notin {Absent, Bad} /\ u.address.port \notin {Absent, Bad}
      /\ Absent # Bad
  BY DEF ListenerAssumption, UnitConfigAssumption, Unit, Address
<1>2. CASE u.form = "listen"
  <2>1. flags = [host |-> Absent, port |-> Absent, listen |-> u.address]
    BY <1>2 DEF ExecStart, Nothing
  <2> HIDE DEF flags
  <2>2. Given(flags) = {"listen"}
    BY <2>1, <1>1 DEF Given
  <2>3. flags.listen = u.address
    BY <2>1
  <2>4. ResolveListener(flags, env) = u.address
    BY <2>2, <2>3, <1>1 DEF ResolveListener
  <2>5. QED
    BY <2>4, <1>2 DEF flags
<1>3. CASE u.form # "listen"
  <2>1. flags = [host |-> u.address.host, port |-> u.address.port, listen |-> Absent]
    BY <1>3 DEF ExecStart, Nothing
  <2> HIDE DEF flags
  <2>2. flags.listen = Absent /\ Given(flags) # {}
    BY <2>1, <1>1 DEF Given
  <2>3. ResolveListener(flags, env) = ResolveHostPort(flags, env)
    BY <2>2 DEF ResolveListener
  <2>4. ResolveHostPort(flags, env) = Join(u.address.host, u.address.port)
    BY <2>1, <1>1 DEF ResolveHostPort, First
  <2>5. Join(u.address.host, u.address.port) = Recorded(u)
    BY <1>1 DEF Join, Recorded, Trimmed
  <2>6. QED
    BY <2>3, <2>4, <2>5, <1>3 DEF flags
<1>4. QED
  BY <1>2, <1>3

LEMMA ListensRecorded ==
  ASSUME ListenerAssumption, NEW u \in Unit
  PROVE  Listens(u) \in {Missing, Recorded(u)}
<1> DEFINE address == ResolveListener(ExecStart(u), ServiceEnv(u))
<1>1. address \in {u.address, Recorded(u)}
  BY ExecStartWins
<1> HIDE DEF address
<1>2. ~u.address.padded => Recorded(u) = u.address
  BY RecordedAddress
<1>3. Listens(u) = Missing \/ (Listens(u) = address /\ ~address.padded)
  BY DEF Listens, address
<1>4. QED
  BY <1>1, <1>2, <1>3

-----------------------------------------------------------------------------
(* The invariant. *)

UnitConfigInv == UnitConfigTypeOK /\ RuntimeIsRecorded

LEMMA InitUnitConfig == ASSUME ListenerAssumption PROVE UnitConfigInit => UnitConfigInv
<1> SUFFICES ASSUME UnitConfigInit PROVE UnitConfigInv
  OBVIOUS
<1>1. Nothing \in Selection
  BY DEF Nothing, Selection
<1>2. OldUnit \subseteq Unit
  BY DEF OldUnit, Unit, ListenerAssumption, UnitConfigAssumption
<1>3. QED
  BY <1>1, <1>2 DEF UnitConfigInit, UnitConfigInv, UnitConfigTypeOK, RuntimeIsRecorded

(* What every install publishes. *)
LEMMA PublishInv ==
  ASSUME ListenerAssumption, UnitConfigInv, NEW options,
         options.form \in {"host/port", "listen"}, options.address \in Address,
         options.envfile \in {Missing, "env"}, Publish(options)
  PROVE  UnitConfigInv'
<1> DEFINE u == BuildUnit(options)
<1>1. u \in Unit
  BY DEF BuildUnit, Unit
<1> HIDE DEF u
<1>2. u # Missing
  BY <1>1 DEF ListenerAssumption, UnitAssumption
<1>3. Listens(u) \in {Missing, Recorded(u)}
  BY <1>1, ListensRecorded
<1>4. unit' = u /\ UNCHANGED <<shell, envFile>>
  BY DEF Publish, u
<1>5. running' \in {Missing, Recorded(u)}
  BY <1>3 DEF Publish, u, UnitConfigInv, RuntimeIsRecorded, Installed
<1>6. Recorded(u) \in Address
  BY <1>1, RecordedAddress
<1>7. QED
  BY <1>1, <1>2, <1>4, <1>5, <1>6 DEF UnitConfigInv, UnitConfigTypeOK, RuntimeIsRecorded,
                                      Installed, Recorded, Trimmed, Join

LEMMA StepUnitConfig ==
  ASSUME ListenerAssumption
  PROVE  UnitConfigInv /\ [UnitConfigNext]_unitConfigVars => UnitConfigInv'
<1> SUFFICES ASSUME UnitConfigInv, [UnitConfigNext]_unitConfigVars PROVE UnitConfigInv'
  OBVIOUS
<1> USE DEF Options
<1>1. ASSUME NEW flags \in Selection, NEW envfile \in {Missing, "env"}, InstallSelected(flags, envfile)
      PROVE  UnitConfigInv'
  <2> DEFINE address == ResolveListener(flags, shell)
  <2>1. address \in Address
    BY <1>1, ListenerResolved DEF InstallSelected, UnitConfigInv, UnitConfigTypeOK,
                                  ListenerAssumption
  <2>2. Publish(InstallOptions(address, Legacy(flags), envfile))
    BY <1>1 DEF InstallSelected
  <2>3. QED
    BY <2>1, <2>2, PublishInv DEF InstallOptions
<1>2. ASSUME NEW envfile \in {Absent, Missing, "env"}, InstallBare(envfile)
      PROVE  UnitConfigInv'
  <2> DEFINE kept == IF envfile = Absent THEN unit.envfile ELSE envfile
  <2>1. unit \in Unit
    BY <1>2 DEF InstallBare, Installed, UnitConfigInv, UnitConfigTypeOK
  <2>2. kept \in {Missing, "env"}
    BY <2>1 DEF Unit
  <2>3. Recorded(unit) \in Address
    BY <2>1, RecordedAddress
  <2>4. Publish(OptionsFromMeta(unit, kept))
    BY <1>2 DEF InstallBare
  <2>5. QED
    BY <2>2, <2>3, <2>4, PublishInv DEF OptionsFromMeta
<1>3. ASSUME NEW envfile \in {Missing, "env"}, InstallFirst(envfile)
      PROVE  UnitConfigInv'
  <2>1. Join(DefaultHost, DefaultPort) \in Address
    BY DEF Join, Address, ListenerAssumption, UnitConfigAssumption
  <2>2. Publish(InstallOptions(Join(DefaultHost, DefaultPort), FALSE, envfile))
    BY <1>3 DEF InstallFirst
  <2>3. QED
    BY <2>1, <2>2, PublishInv DEF InstallOptions
<1>4. CASE StartUnit \/ Restart
  <2>1. unit \in Unit /\ Installed
    BY <1>4 DEF StartUnit, Restart, Installed, UnitConfigInv, UnitConfigTypeOK
  <2>2. Listens(unit) \in {Missing, Recorded(unit)} /\ Recorded(unit) \in Address
    BY <2>1, ListensRecorded, RecordedAddress
  <2>3. UNCHANGED <<shell, unit, envFile>> /\ running' \in {running, Listens(unit)}
    BY <1>4 DEF StartUnit, Restart
  <2>4. QED
    BY <2>1, <2>2, <2>3 DEF UnitConfigInv, UnitConfigTypeOK, RuntimeIsRecorded, Installed,
                            Recorded, Trimmed, Join
<1>5. CASE StopUnit \/ Uninstall
  BY <1>5 DEF StopUnit, Uninstall, UnitConfigInv, UnitConfigTypeOK, RuntimeIsRecorded
<1>6. CASE OtherShell \/ EditFile
  <2>1. Nothing \in Selection
    BY DEF Nothing, Selection
  <2>2. QED
    BY <2>1, <1>6 DEF OtherShell, EditFile, UnitConfigInv, UnitConfigTypeOK,
                      RuntimeIsRecorded, Installed, Recorded, Trimmed, Join
<1>7. CASE EditUnit
  <2>1. unit \in Unit /\ unit' = [unit EXCEPT !.managed = ~@] /\ UNCHANGED <<shell, envFile, running>>
    BY <1>7 DEF EditUnit, Installed, UnitConfigInv, UnitConfigTypeOK
  <2>2. unit' \in Unit /\ unit'.address = unit.address
    BY <2>1 DEF Unit
  <2>3. unit' # Missing
    BY <2>2 DEF ListenerAssumption, UnitAssumption
  <2>4. QED
    BY <2>1, <2>2, <2>3 DEF UnitConfigInv, UnitConfigTypeOK, RuntimeIsRecorded, Installed, Recorded
<1>8. CASE UNCHANGED unitConfigVars
  BY <1>8 DEF unitConfigVars, UnitConfigInv, UnitConfigTypeOK, RuntimeIsRecorded,
              Installed, Recorded, Trimmed, Join
<1>9. QED
  BY <1>1, <1>2, <1>3, <1>4, <1>5, <1>6, <1>7, <1>8 DEF UnitConfigNext

(* "the recorded listener is the runtime listener across restart and       *)
(* reboot" (RuntimeIsRecorded): whatever was installed over whatever unit, *)
(* in whatever shell, and whatever the environment file has come to say,   *)
(* the service listens at no address but that of its unit.                 *)
THEOREM RuntimeRecorded == ListenerAssumption => (UnitConfigSpec => []RuntimeIsRecorded)
<1> SUFFICES ASSUME ListenerAssumption PROVE UnitConfigSpec => []RuntimeIsRecorded
  OBVIOUS
<1>1. UnitConfigInit => UnitConfigInv
  BY InitUnitConfig
<1>2. UnitConfigInv /\ [UnitConfigNext]_unitConfigVars => UnitConfigInv'
  BY StepUnitConfig
<1>3. UnitConfigInv => RuntimeIsRecorded
  BY DEF UnitConfigInv
<1>4. QED
  BY <1>1, <1>2, <1>3, PTL DEF UnitConfigSpec

-----------------------------------------------------------------------------
(* What an accepted host and port were given by. *)
LEMMA HostPortAgrees ==
  ASSUME UnitConfigAssumption, NEW flags \in Selection, NEW env \in Selection,
         ResolveHostPort(flags, env) # Refused
  PROVE  LET address == ResolveHostPort(flags, env) IN
           /\ flags.host # Absent => address.host = flags.host
           /\ flags.port # Absent => address.port = flags.port
           /\ flags.host = Absent /\ env.host # Absent => address.host = env.host
           /\ flags.port = Absent /\ env.port # Absent => address.port = env.port
  BY DEF ResolveHostPort, First, Join, UnitConfigAssumption

(* Of a selection, the fields that are given. *)
LEMMA GivenFields ==
  ASSUME NEW s \in Selection
  PROVE  /\ \A field \in Given(s) : field \in {"host", "port", "listen"} /\ s[field] # Absent
         /\ "listen" \in Given(s) <=> s.listen # Absent
         /\ Given(s) = {"listen"} => s.host = Absent /\ s.port = Absent
  BY DEF Selection, Given

(* Blanks are not compared.                                                *)
LEMMA Honoured ==
  ASSUME ListenerAssumption, NEW env \in Selection
  PROVE  Honours(env)
<1> SUFFICES ASSUME NEW flags \in Selection, ResolveListener(flags, env) # Refused
    PROVE  LET address == ResolveListener(flags, env)
               Agrees(s, field) == IF field = "listen" THEN Trimmed(address) = Trimmed(s.listen)
                                   ELSE address[field] = s[field]
           IN /\ \A field \in Given(flags) : Agrees(flags, field)
              /\ flags.listen = Absent =>
                   \A field \in Given(env) \ Given(flags) :
                     (field = "listen" /\ Given(flags) # {}) \/ Agrees(env, field)
  BY DEF Honours
<1> DEFINE address == ResolveListener(flags, env)
<1>1. CASE flags.listen # Absent
  <2>1. address = flags.listen /\ Given(flags) = {"listen"}
    BY <1>1 DEF ResolveListener
  <2>2. QED
    BY <1>1, <2>1
<1>2. CASE flags.listen = Absent /\ (Given(flags) # {} \/ env.listen = Absent)
  <2>1. address = ResolveHostPort(flags, env)
    BY <1>2 DEF ResolveListener
  <2>2. ResolveHostPort(flags, env) # Refused
    BY <2>1
  <2> HIDE DEF address
  <2>3. /\ flags.host # Absent => address.host = flags.host
        /\ flags.port # Absent => address.port = flags.port
        /\ flags.host = Absent /\ env.host # Absent => address.host = env.host
        /\ flags.port = Absent /\ env.port # Absent => address.port = env.port
    BY <2>1, <2>2, HostPortAgrees DEF ListenerAssumption
  <2>4. \A field \in Given(flags) :
          field # "listen" /\ address[field] = flags[field]
    BY <1>2, <2>3, GivenFields
  <2>5. ASSUME NEW field \in Given(env) \ Given(flags)
        PROVE  \/ field = "listen" /\ Given(flags) # {}
               \/ field # "listen" /\ address[field] = env[field]
    <3>1. field \in {"host", "port", "listen"} /\ env[field] # Absent
      BY <2>5, GivenFields
    <3>2. field \in {"host", "port"} => flags[field] = Absent
      BY <2>5 DEF Given, Selection
    <3>3. QED
      BY <1>2, <2>3, <3>1, <3>2
  <2>6. QED
    BY <2>4, <2>5 DEF address
<1>3. CASE flags.listen = Absent /\ ~(Given(flags) # {} \/ env.listen = Absent)
  <2>1. address = env.listen /\ Given(env) = {"listen"}
    BY <1>3 DEF ResolveListener
  <2>2. QED
    BY <1>3, <2>1
<1>4. QED
  BY <1>1, <1>2, <1>3

(* Nothing the operator selects is silently dropped (SelectionHonoured):   *)
(* whatever shell he comes to, and whatever flags he gives there, an       *)
(* accepted listener agrees with all of them and of the variables but a    *)
(* legacy variable that host or port flags override.                       *)
THEOREM SelectionIsHonoured == ListenerAssumption => (UnitConfigSpec => SelectionHonoured)
<1> SUFFICES ASSUME ListenerAssumption PROVE UnitConfigSpec => SelectionHonoured
  OBVIOUS
<1>1. UnitConfigInit => UnitConfigInv
  BY InitUnitConfig
<1>2. UnitConfigInv /\ [UnitConfigNext]_unitConfigVars => UnitConfigInv'
  BY StepUnitConfig
<1>3. ASSUME UnitConfigInv, [UnitConfigNext]_unitConfigVars
      PROVE  [shell' # shell => Honours(shell')]_unitConfigVars
  <2>1. shell' \in Selection
    BY <1>2, <1>3 DEF UnitConfigInv, UnitConfigTypeOK
  <2>2. QED
    BY <2>1, Honoured
<1>4. QED
  BY <1>1, <1>2, <1>3, PTL DEF UnitConfigSpec, SelectionHonoured

-----------------------------------------------------------------------------
(* A unit with a loopback address that no blanks surround makes a start    *)
(* listen there, whatever the environment file says.                       *)
LEMMA LoopbackUnit ==
  ASSUME ListenerAssumption, NEW u \in Unit, u.address.host \in Loopback, ~u.address.padded
  PROVE  Listens(u) = Recorded(u)
<1> DEFINE address == ResolveListener(ExecStart(u), ServiceEnv(u))
<1>1. Recorded(u) = u.address /\ u.address \in Address
  BY RecordedAddress DEF Unit
<1>2. address = u.address
  BY <1>1, ExecStartWins
<1>3. address # Refused
  BY <1>1, <1>2 DEF ListenerAssumption, UnitConfigAssumption
<1> HIDE DEF address
<1>4. QED
  BY <1>1, <1>2, <1>3 DEF Listens, address

(* What an install makes of a service that was not there, or that runs.    *)
LEMMA PublishStarts ==
  ASSUME ListenerAssumption, NEW options,
         options.form \in {"host/port", "listen"}, options.address \in Address,
         options.envfile \in {Missing, "env"}, Publish(options),
         ~Installed \/ (running # Missing /\ unit' # unit)
  PROVE  unit' \in Unit /\ running' = Listens(unit')
<1> DEFINE u == BuildUnit(options)
<1>1. u \in Unit /\ unit' = u
  BY DEF BuildUnit, Unit, Publish
<1> HIDE DEF u
<1>2. unit # u
  BY <1>1 DEF Installed, ListenerAssumption, UnitAssumption
<1>3. running' = Listens(u)
  BY <1>2 DEF Publish, u
<1>4. QED
  BY <1>1, <1>3

(* Every install publishes well-formed options.                            *)
LEMMA InstallPublishes ==
  ASSUME ListenerAssumption, UnitConfigInv,
         \/ \E flags \in Selection, envfile \in {Missing, "env"} : InstallSelected(flags, envfile)
         \/ \E envfile \in {Absent, Missing, "env"} : InstallBare(envfile)
         \/ \E envfile \in {Missing, "env"} : InstallFirst(envfile)
  PROVE  \E options :
           /\ options.form \in {"host/port", "listen"} /\ options.address \in Address
           /\ options.envfile \in {Missing, "env"} /\ Publish(options)
<1> USE DEF Options
<1>1. ASSUME NEW flags \in Selection, NEW envfile \in {Missing, "env"}, InstallSelected(flags, envfile)
      PROVE  LET options == InstallOptions(ResolveListener(flags, shell), Legacy(flags), envfile)
             IN /\ options.form \in {"host/port", "listen"} /\ options.address \in Address
                /\ options.envfile \in {Missing, "env"} /\ Publish(options)
  <2>1. ResolveListener(flags, shell) \in Address
    BY <1>1, ListenerResolved DEF InstallSelected, UnitConfigInv, UnitConfigTypeOK,
                                  ListenerAssumption
  <2>2. QED
    BY <2>1, <1>1 DEF InstallSelected, InstallOptions
<1>2. ASSUME NEW envfile \in {Absent, Missing, "env"}, InstallBare(envfile)
      PROVE  LET options == OptionsFromMeta(unit, IF envfile = Absent THEN unit.envfile ELSE envfile)
             IN /\ options.form \in {"host/port", "listen"} /\ options.address \in Address
                /\ options.envfile \in {Missing, "env"} /\ Publish(options)
  <2>1. unit \in Unit
    BY <1>2 DEF InstallBare, Installed, UnitConfigInv, UnitConfigTypeOK
  <2>2. Recorded(unit) \in Address /\ unit.envfile \in {Missing, "env"}
    BY <2>1, RecordedAddress DEF Unit
  <2>3. QED
    BY <2>2, <1>2 DEF InstallBare, OptionsFromMeta
<1>3. ASSUME NEW envfile \in {Missing, "env"}, InstallFirst(envfile)
      PROVE  LET options == InstallOptions(Join(DefaultHost, DefaultPort), FALSE, envfile)
             IN /\ options.form \in {"host/port", "listen"} /\ options.address \in Address
                /\ options.envfile \in {Missing, "env"} /\ Publish(options)
  <2>1. Join(DefaultHost, DefaultPort) \in Address
    BY DEF Join, Address, ListenerAssumption, UnitConfigAssumption
  <2>2. QED
    BY <2>1, <1>3 DEF InstallFirst, InstallOptions
<1>4. QED
  BY <1>1, <1>2, <1>3

(* A service with a loopback address listens there whenever it is          *)
(* installed for the first time, started or restarted, and after every     *)
(* change of its unit while it runs, whatever the environment file says    *)
(* then (LoopbackComesUp).  Addresses with blanks are left out.            *)
THEOREM LoopbackListens == ListenerAssumption => (UnitConfigSpec => LoopbackComesUp)
<1> SUFFICES ASSUME ListenerAssumption PROVE UnitConfigSpec => LoopbackComesUp
  OBVIOUS
<1> DEFINE Due == ~Installed \/ StartUnit \/ Restart \/ (running # Missing /\ unit' # unit)
           ComesUp ==
             /\ Due
             /\ unit' # Missing /\ unit'.address.host \in Loopback /\ ~unit'.address.padded
             => running' = Recorded(unit')
<1>1. UnitConfigInit => UnitConfigInv
  BY InitUnitConfig
<1>2. UnitConfigInv /\ [UnitConfigNext]_unitConfigVars => UnitConfigInv'
  BY StepUnitConfig
<1>3. ASSUME UnitConfigInv, [UnitConfigNext]_unitConfigVars PROVE [ComesUp]_unitConfigVars
  <2> SUFFICES ASSUME UnitConfigNext, Due,
                      unit' # Missing, unit'.address.host \in Loopback, ~unit'.address.padded
               PROVE  running' = Recorded(unit')
    BY <1>3
  <2>1. unit' \in Unit /\ (running' # Missing => running' = Recorded(unit'))
    BY <1>2, <1>3 DEF UnitConfigInv, UnitConfigTypeOK, RuntimeIsRecorded, Installed, Recorded,
                      Trimmed, Join
  <2>2. CASE StartUnit \/ Restart
    <3>1. unit' = unit /\ unit \in Unit
      BY <2>1, <2>2 DEF StartUnit, Restart
    <3>2. (running' = running /\ running # Missing) \/ running' = Listens(unit)
      BY <2>2 DEF StartUnit, Restart
    <3>3. Listens(unit) = Recorded(unit)
      BY <3>1, LoopbackUnit
    <3>4. Recorded(unit') = Recorded(unit)
      BY <3>1 DEF Recorded
    <3>5. QED
      BY <2>1, <3>2, <3>3, <3>4
  <2>3. CASE \/ \E flags \in Selection, envfile \in {Missing, "env"} : InstallSelected(flags, envfile)
             \/ \E envfile \in {Absent, Missing, "env"} : InstallBare(envfile)
             \/ \E envfile \in {Missing, "env"} : InstallFirst(envfile)
    <3>1. CASE ~Installed \/ (running # Missing /\ unit' # unit)
      <4>1. running' = Listens(unit')
        BY <2>3, <3>1, <1>3, InstallPublishes, PublishStarts
      <4>2. QED
        BY <2>1, <4>1, LoopbackUnit
    <3>2. QED
      BY <2>2, <3>1
  <2>4. CASE StopUnit \/ Uninstall \/ OtherShell \/ EditFile
    <3>1. unit' = unit
      BY <2>4 DEF StopUnit, Uninstall, OtherShell, EditFile
    <3>2. StartUnit \/ Restart
      BY <3>1 DEF Installed
    <3>3. QED
      BY <3>2, <2>2
  <2>5. CASE EditUnit
    <3>1. running' = running /\ Installed
      BY <2>5 DEF EditUnit
    <3>2. StartUnit \/ Restart \/ running' # Missing
      BY <3>1
    <3>3. QED
      BY <2>1, <2>2, <3>2
  <2>6. QED
    BY <2>2, <2>3, <2>4, <2>5 DEF UnitConfigNext
<1>4. QED
  BY <1>1, <1>2, <1>3, PTL DEF UnitConfigSpec, LoopbackComesUp

-----------------------------------------------------------------------------
(***************************************************************************)
(* The first administrator.  The invariant has a part that always holds    *)
(* (Order), one that only an old Reload breaks (Door: a setup that has     *)
(* saved its administrator still has him in the memory), and one that any  *)
(* of the three races breaks (Tokens: the token that is stored, the one a  *)
(* setup has passed with, and those that were used).                       *)
(***************************************************************************)

Order ==
  /\ ~up => \A r \in Request : setupPc[r] = "idle"
  /\ \A r, s \in Request : InSetup(r) /\ InSetup(s) => r = s
  /\ cli = "creating" => own.admin = 0
  /\ cli = "recording" => own.admin # 0

Door ==
  "reload" \notin raced =>
    \A r \in Request : setupPc[r] = "consuming" => locked \/ (mem.admin # 0 /\ disk.admin # 0)

(* The stored token, while there is no administrator, is the last one and  *)
(* has made none.                                                          *)
Fresh ==
  disk.admin = 0 /\ disk.bootstrap.issue # 0 =>
    /\ disk.bootstrap.issue = issued
    /\ \A u \in uses : u.issue # disk.bootstrap.issue

(* What a setup has passed with is still stored.                           *)
Passed ==
  \A r \in Request : setupPc[r] = "creating" /\ with[r] # 0 =>
    required /\ ~locked /\ with[r] = disk.bootstrap.issue

Tokens ==
  raced = {} =>
    /\ up => mem.bootstrap = disk.bootstrap
    /\ locked => disk.bootstrap.issue = 0
    /\ \A u \in uses : u.issue <= issued
    /\ Fresh /\ Passed /\ SingleUse

FirstRunRest == Order /\ Door /\ Tokens /\ KeyForTheDoor
FirstRunInv == FirstRunTypeOK /\ FirstRunRest

-----------------------------------------------------------------------------
(* Types. *)

LEMMA FirstRunType ==
  ASSUME FirstRunAssumption
  PROVE  /\ FirstRunState \in LocalAuth
         /\ FirstRunState.admin = 0 /\ FirstRunState.bootstrap.issue = 0
  BY DEF FirstRunAssumption, FirstRunState, NoBootstrap, LocalAuth, Bootstrap

(* A file with another administrator, another token, a token consumed.     *)
LEMMA WithAdmin ==
  ASSUME NEW v \in LocalAuth, NEW n \in 0 .. MaxAdmins
  PROVE  LET w == [v EXCEPT !.admin = n] IN
           w \in LocalAuth /\ w.admin = n /\ w.bootstrap = v.bootstrap
  BY DEF LocalAuth

LEMMA WithToken ==
  ASSUME NEW v \in LocalAuth, NEW token \in Bootstrap
  PROVE  LET w == [v EXCEPT !.bootstrap = token] IN
           w \in LocalAuth /\ w.admin = v.admin /\ w.bootstrap = token
  BY DEF LocalAuth

LEMMA WithConsumed ==
  ASSUME NEW v \in LocalAuth, required \in BOOLEAN
  PROVE  LET w == [v EXCEPT !.bootstrap.consumed = @ \/ required] IN
           w \in LocalAuth /\ w.admin = v.admin /\ w.bootstrap.issue = v.bootstrap.issue
  BY DEF LocalAuth, Bootstrap

LEMMA FirstRunTyped ==
  ASSUME FirstRunAssumption, FirstRunTypeOK, [FirstRunNext]_firstRunVars
  PROVE  FirstRunTypeOK'
<1> USE DEF service, requests, command, history, Goto
<1>1. /\ FirstRunState \in LocalAuth
      /\ 0 \in 0 .. MaxAdmins /\ 0 \in 0 .. MaxIssues
      /\ \A v \in LocalAuth : v.admin \in 0 .. MaxAdmins /\ v.bootstrap.issue \in 0 .. MaxIssues
  BY FirstRunType DEF FirstRunAssumption, LocalAuth, Bootstrap
<1>2. CASE Start \/ Stop \/ UNCHANGED firstRunVars \/ StartFails
  BY <1>1, <1>2 DEF Start, Boot, Stop, StartFails, firstRunVars, FirstRunTypeOK
<1>3. CASE StartWithToken
  <2>1. issued + 1 \in 0 .. MaxIssues
    BY <1>3 DEF StartWithToken, FirstRunTypeOK, FirstRunAssumption
  <2>2. Issue(disk.bootstrap) \in Bootstrap
    BY <2>1 DEF Issue, Bootstrap
  <2>3. disk' \in LocalAuth /\ mem' = disk'
    BY <1>3, <2>2, WithToken DEF StartWithToken, Save, FirstRunTypeOK
  <2>4. /\ up' = TRUE /\ required' = TRUE /\ locked' = FALSE /\ model' = disk.admin
        /\ UNCHANGED <<setupPc, held, with, cli, own, admins, resets, uses, raced>>
        /\ issued' \in 0 .. MaxIssues
    BY <1>3, <2>1 DEF StartWithToken, Boot
  <2>5. model' \in 0 .. MaxAdmins
    BY <1>1, <2>4 DEF FirstRunTypeOK
  <2>6. QED
    BY <2>3, <2>4, <2>5 DEF FirstRunTypeOK
<1>4. ASSUME NEW r \in Request, ReloadRead(r) \/ ReloadPublish(r) \/ ReloadModel(r)
      PROVE  FirstRunTypeOK'
  <2>1. CASE ReloadRead(r)
    BY <1>1, <2>1 DEF ReloadRead, FirstRunTypeOK
  <2>2. CASE ReloadPublish(r)
    <3>1. held[r] \in LocalAuth
      BY DEF FirstRunTypeOK
    <3>2. raced' \subseteq Races
      BY <2>2 DEF ReloadPublish, Marks, Races, FirstRunTypeOK
    <3>3. QED
      BY <1>1, <2>2, <3>1, <3>2 DEF ReloadPublish, FirstRunTypeOK
  <2>3. CASE ReloadModel(r)
    BY <1>1, <2>3 DEF ReloadModel, FirstRunTypeOK
  <2>4. QED
    BY <1>4, <2>1, <2>2, <2>3
<1>5. ASSUME NEW r \in Request, Setup(r) \/ Check(r) \/ CheckRefused(r) \/ CreateRefused(r)
      PROVE  FirstRunTypeOK'
  <2>1. mem.admin \in 0 .. MaxAdmins /\ mem.bootstrap.issue \in 0 .. MaxIssues
    BY <1>1 DEF FirstRunTypeOK
  <2>2. QED
    BY <1>1, <1>5, <2>1 DEF Setup, Check, CheckRefused, CreateRefused, FirstRunTypeOK
<1>6. ASSUME NEW r \in Request, CreateAdministrator(r) PROVE FirstRunTypeOK'
  <2>1. admins + 1 \in 1 .. MaxAdmins /\ admins + 1 \in 0 .. MaxAdmins
        /\ with[r] \in 0 .. MaxIssues
    BY <1>6 DEF CreateAdministrator, FirstRunTypeOK, FirstRunAssumption
  <2>2. disk' \in LocalAuth /\ mem' \in LocalAuth
    BY <1>6, <2>1, WithAdmin DEF CreateAdministrator, Save, FirstRunTypeOK
  <2>3. [admin |-> admins + 1, issue |-> with[r]] \in [admin : 1 .. MaxAdmins, issue : 0 .. MaxIssues]
    BY <2>1
  <2>4. raced' \subseteq Races
    BY <1>6 DEF CreateAdministrator, Marks, Races, FirstRunTypeOK
  <2>5. QED
    BY <1>1, <1>6, <2>1, <2>2, <2>3, <2>4 DEF CreateAdministrator, FirstRunTypeOK
<1>7. ASSUME NEW r \in Request, Consume(r) PROVE FirstRunTypeOK'
  <2>1. disk' \in LocalAuth /\ mem' \in LocalAuth
    BY <1>7, WithConsumed DEF Consume, Save, SaveFails, FirstRunTypeOK
  <2>2. raced' \subseteq Races
    BY <1>7 DEF Consume, Marks, Races, FirstRunTypeOK
  <2>3. QED
    BY <1>1, <1>7, <2>1, <2>2 DEF Consume, FirstRunTypeOK
<1>8. CASE Reset \/ RecoverFile
  <2>1. resets' \in 0 .. MaxResets
    <3>1. resets < MaxResets /\ resets' = resets + 1
      BY <1>8 DEF Reset, RecoverFile
    <3>2. QED
      BY <3>1 DEF FirstRunTypeOK, FirstRunAssumption
  <2>2. raced' \subseteq Races
    BY <1>8 DEF Reset, RecoverFile, Marks, Races, FirstRunTypeOK
  <2>3. QED
    BY <1>1, <1>8, <2>1, <2>2 DEF Reset, RecoverFile, Save, ResetLocalAuth, FirstRunTypeOK
<1>9. CASE CliOpen \/ CliRecord \/ CliEnds
  <2>1. CASE CliOpen \/ CliEnds
    BY <1>1, <2>1 DEF CliOpen, CliEnds, FirstRunTypeOK
  <2>2. CASE CliRecord
    <3>1. raced' \subseteq Races
      BY <2>2 DEF CliRecord, Marks, Races, FirstRunTypeOK
    <3>2. QED
      BY <1>1, <2>2, <3>1 DEF CliRecord, FirstRunTypeOK
  <2>3. QED
    BY <1>9, <2>1, <2>2
<1>10. CASE CliCreate
  <2>1. admins + 1 \in 1 .. MaxAdmins /\ admins + 1 \in 0 .. MaxAdmins
    BY <1>10 DEF CliCreate, FirstRunTypeOK, FirstRunAssumption
  <2>2. own' \in LocalAuth /\ disk' = own'
    BY <1>10, <2>1, WithAdmin DEF CliCreate, FirstRunTypeOK
  <2>3. [admin |-> admins + 1, issue |-> 0] \in [admin : 1 .. MaxAdmins, issue : 0 .. MaxIssues]
    BY <1>1, <2>1
  <2>4. raced' \subseteq Races
    BY <1>10 DEF CliCreate, Marks, Races, FirstRunTypeOK
  <2>5. QED
    BY <1>10, <2>1, <2>2, <2>3, <2>4 DEF CliCreate, FirstRunTypeOK
<1>11. QED
  BY <1>2, <1>3, <1>4, <1>5, <1>6, <1>7, <1>8, <1>9, <1>10 DEF FirstRunNext

LEMMA InitFirstRun == ASSUME FirstRunAssumption PROVE FirstRunInit => FirstRunInv
<1> SUFFICES ASSUME FirstRunInit PROVE FirstRunInv
  OBVIOUS
<1>1. FirstRunTypeOK
  <2>1. /\ FirstRunState \in LocalAuth
        /\ 0 \in 0 .. MaxAdmins /\ 0 \in 0 .. MaxIssues /\ 0 \in 0 .. MaxResets
    BY FirstRunType DEF FirstRunAssumption
  <2>2. QED
    BY <2>1 DEF FirstRunInit, FirstRunTypeOK
<1>2. Order /\ Door
  BY DEF FirstRunInit, Order, Door, InSetup
<1>3. Tokens /\ KeyForTheDoor
  BY FirstRunType DEF FirstRunInit, Tokens, Fresh, Passed, SingleUse, KeyForTheDoor
<1>4. QED
  BY <1>1, <1>2, <1>3 DEF FirstRunInv, FirstRunRest

-----------------------------------------------------------------------------
(* The service starts and stops. *)

LEMMA StartInv == ASSUME FirstRunInv, Start PROVE FirstRunRest'
<1>1. PICK needs \in BOOLEAN :
        /\ needs => disk.admin # 0
        /\ ~up
        /\ up' = TRUE /\ required' = needs /\ locked' = FALSE /\ mem' = disk
        /\ UNCHANGED <<disk, setupPc, held, with, cli, own, issued, uses, raced>>
  BY DEF Start, Boot, requests, command, history
<1>2. \A r \in Request : setupPc[r] = "idle"
  BY <1>1 DEF FirstRunInv, FirstRunRest, Order
<1>3. Order' /\ Door'
  BY <1>1, <1>2 DEF FirstRunInv, FirstRunRest, Order, Door, InSetup
<1>4. Tokens'
  BY <1>1, <1>2 DEF FirstRunInv, FirstRunRest, Tokens, Fresh, Passed, SingleUse
<1>5. KeyForTheDoor'
  BY <1>1 DEF KeyForTheDoor
<1>6. QED
  BY <1>3, <1>4, <1>5 DEF FirstRunRest

LEMMA StartWithTokenInv ==
  ASSUME FirstRunAssumption, FirstRunInv, StartWithToken
  PROVE  FirstRunRest'
<1> DEFINE token == [issue |-> issued + 1, consumed |-> FALSE]
<1>1. /\ disk.admin = 0 /\ ~up
      /\ up' = TRUE /\ required' = TRUE /\ locked' = FALSE /\ mem' = disk'
      /\ disk' = [disk EXCEPT !.bootstrap = token]
      /\ issued' = issued + 1
      /\ UNCHANGED <<setupPc, held, with, cli, own, uses, raced>>
  BY DEF StartWithToken, Boot, Save, Issue, requests, command
<1>2. issued \in Nat /\ issued + 1 \in 0 .. MaxIssues
  BY DEF FirstRunInv, FirstRunTypeOK, FirstRunAssumption, StartWithToken
<1>3. token \in Bootstrap /\ token.issue = issued + 1 /\ ~token.consumed
  BY <1>2 DEF Bootstrap
<1> HIDE DEF token
<1>4. disk'.bootstrap = token
  BY <1>1, <1>3, WithToken DEF FirstRunInv, FirstRunTypeOK
<1>5. \A r \in Request : setupPc[r] = "idle"
  BY <1>1 DEF FirstRunInv, FirstRunRest, Order
<1>6. \A u \in uses : u.issue \in Nat
  BY DEF FirstRunInv, FirstRunTypeOK
<1>7. Order' /\ Door'
  BY <1>1, <1>5 DEF FirstRunInv, FirstRunRest, Order, Door, InSetup
<1>8. Tokens'
  BY <1>1, <1>2, <1>3, <1>4, <1>5, <1>6 DEF FirstRunInv, FirstRunRest, Tokens, Fresh, Passed, SingleUse
<1>9. KeyForTheDoor'
  BY <1>1, <1>2, <1>3, <1>4 DEF KeyForTheDoor
<1>10. QED
  BY <1>7, <1>8, <1>9 DEF FirstRunRest

LEMMA StopInv == ASSUME FirstRunInv, Stop PROVE FirstRunRest'
<1>1. /\ up' = FALSE /\ required' = FALSE /\ locked' = FALSE
      /\ setupPc' = [r \in Request |-> "idle"]
      /\ UNCHANGED <<disk, cli, own, issued, uses, raced>>
  BY DEF Stop, command, history
<1>2. Order' /\ Door'
  BY <1>1 DEF FirstRunInv, FirstRunRest, Order, Door, InSetup
<1>3. Tokens'
  BY <1>1 DEF FirstRunInv, FirstRunRest, Tokens, Fresh, Passed, SingleUse
<1>4. KeyForTheDoor'
  BY <1>1 DEF KeyForTheDoor
<1>5. QED
  BY <1>2, <1>3, <1>4 DEF FirstRunRest

-----------------------------------------------------------------------------
(* The requests. *)

(* A request is at work only in a service that runs.                       *)
LEMMA Working ==
  ASSUME FirstRunInv, NEW r \in Request, setupPc[r] # "idle"
  PROVE  up
  BY DEF FirstRunInv, FirstRunRest, FirstRunTypeOK, Order

(* A step of a request that saves nothing, and goes no further into a      *)
(* setup than to its check.                                                *)
LEMMA QuietInv ==
  ASSUME FirstRunInv, up, NEW r \in Request,
         NEW label \in {"idle", "reloading", "loading", "checking"},
         setupPc' = [setupPc EXCEPT ![r] = label],
         label = "checking" => \A s \in Request : ~InSetup(s),
         \A s \in Request : s # r => with'[s] = with[s],
         UNCHANGED <<disk, mem, up, required, locked, cli, own, issued, uses, raced>>
  PROVE  FirstRunRest'
<1>1. /\ setupPc'[r] = label
      /\ \A s \in Request : s # r => setupPc'[s] = setupPc[s]
  BY DEF FirstRunInv, FirstRunTypeOK
<1>2. Order'
  BY <1>1 DEF FirstRunInv, FirstRunRest, Order, InSetup
<1>3. Door'
  BY <1>1 DEF FirstRunInv, FirstRunRest, Door
<1>4. Passed => Passed'
  BY <1>1 DEF Passed
<1>5. Tokens'
  BY <1>4 DEF FirstRunInv, FirstRunRest, Tokens, Fresh, SingleUse
<1>6. KeyForTheDoor'
  BY DEF FirstRunInv, FirstRunRest, KeyForTheDoor
<1>7. QED
  BY <1>2, <1>3, <1>5, <1>6 DEF FirstRunRest

LEMMA ReloadInv ==
  ASSUME FirstRunInv, NEW r \in Request, ReloadRead(r) \/ ReloadModel(r)
  PROVE  FirstRunRest'
<1>1. CASE ReloadRead(r)
  <2>1. PICK label \in {"reloading", "loading"} : setupPc' = [setupPc EXCEPT ![r] = label]
    BY <1>1 DEF ReloadRead, Goto
  <2>2. up /\ UNCHANGED <<disk, mem, up, required, locked, with, cli, own, issued, uses, raced>>
    BY <1>1 DEF ReloadRead, service, command, history
  <2>3. QED
    BY <2>1, <2>2, QuietInv
<1>2. CASE ReloadModel(r)
  <2>1. /\ setupPc' = [setupPc EXCEPT ![r] = "idle"] /\ setupPc[r] # "idle"
        /\ UNCHANGED <<disk, mem, up, required, locked, with, cli, own, issued, uses, raced>>
    BY <1>2 DEF ReloadModel, At, Goto, command, history
  <2>2. QED
    BY <2>1, QuietInv, Working
<1>3. QED
  BY <1>1, <1>2

LEMMA SetupInv ==
  ASSUME FirstRunInv, NEW r \in Request, Setup(r) \/ CheckRefused(r) \/ CreateRefused(r)
  PROVE  FirstRunRest'
<1>1. CASE Setup(r)
  <2>1. /\ up /\ setupPc' = [setupPc EXCEPT ![r] = "checking"]
        /\ \A s \in Request : ~InSetup(s)
        /\ UNCHANGED <<disk, mem, up, required, locked, with, cli, own, issued, uses, raced>>
    BY <1>1 DEF Setup, Goto, command, history
  <2>2. QED
    BY <2>1, QuietInv
<1>2. CASE CheckRefused(r) \/ CreateRefused(r)
  <2>1. /\ setupPc' = [setupPc EXCEPT ![r] = "idle"] /\ setupPc[r] # "idle"
        /\ UNCHANGED <<disk, mem, up, required, locked, cli, own, issued, uses, raced>>
        /\ with' = with \/ with' = [with EXCEPT ![r] = 0]
    BY <1>2 DEF CheckRefused, CreateRefused, At, Goto, service, command, history
  <2>2. \A s \in Request : s # r => with'[s] = with[s]
    BY <2>1 DEF FirstRunInv, FirstRunTypeOK
  <2>3. QED
    BY <2>1, <2>2, QuietInv, Working
<1>3. QED
  BY <1>1, <1>2

LEMMA ReloadPublishInv ==
  ASSUME FirstRunInv, NEW r \in Request, ReloadPublish(r)
  PROVE  FirstRunRest'
<1>1. /\ setupPc[r] = "reloading" /\ mem' = held[r]
      /\ setupPc' = [setupPc EXCEPT ![r] = "loading"]
      /\ raced' = IF held[r] # disk THEN raced \cup {"reload"} ELSE raced
      /\ UNCHANGED <<disk, up, required, locked, with, cli, own, issued, uses>>
  BY DEF ReloadPublish, At, Goto, Marks, command
<1>2. /\ setupPc'[r] = "loading"
      /\ \A s \in Request : s # r => setupPc'[s] = setupPc[s]
  BY <1>1 DEF FirstRunInv, FirstRunTypeOK
<1>3. "reload" \notin raced' => raced' = raced /\ mem' = disk
  BY <1>1
<1>4. Order'
  BY <1>1, <1>2 DEF FirstRunInv, FirstRunRest, Order, InSetup
<1>5. Door'
  BY <1>1, <1>2, <1>3 DEF FirstRunInv, FirstRunRest, Door
<1>6. Passed => Passed'
  BY <1>1, <1>2 DEF Passed
<1>7. Tokens'
  BY <1>1, <1>3, <1>6 DEF FirstRunInv, FirstRunRest, Tokens, Fresh, SingleUse
<1>8. KeyForTheDoor'
  BY <1>1, <1>3 DEF FirstRunInv, FirstRunRest, KeyForTheDoor
<1>9. QED
  BY <1>4, <1>5, <1>7, <1>8 DEF FirstRunRest

LEMMA CheckInv ==
  ASSUME FirstRunAssumption, FirstRunInv, NEW r \in Request, Check(r)
  PROVE  FirstRunRest'
<1> DEFINE issue == IF required THEN mem.bootstrap.issue ELSE 0
<1>1. /\ setupPc[r] = "checking"
      /\ required => Acceptable(mem.bootstrap)
      /\ setupPc' = [setupPc EXCEPT ![r] = "creating"]
      /\ with' = [with EXCEPT ![r] = issue]
      /\ UNCHANGED <<disk, mem, up, required, locked, cli, own, issued, uses, raced>>
  BY DEF Check, At, Goto, service, command, history
<1> HIDE DEF issue
<1>2. /\ setupPc'[r] = "creating" /\ with'[r] = issue
      /\ \A s \in Request : s # r => setupPc'[s] = setupPc[s] /\ with'[s] = with[s]
  BY <1>1 DEF FirstRunInv, FirstRunTypeOK
<1>3. up
  BY <1>1, Working
<1>4. Order'
  BY <1>1, <1>2, <1>3 DEF FirstRunInv, FirstRunRest, Order, InSetup
<1>5. Door'
  BY <1>1, <1>2 DEF FirstRunInv, FirstRunRest, Door
<1>6. Tokens'
  <2> SUFFICES ASSUME raced = {} PROVE Tokens'
    BY <1>1 DEF Tokens
  <2>1. issue # 0 => required /\ ~locked /\ issue = disk.bootstrap.issue
    BY <1>1, <1>3 DEF issue, FirstRunInv, FirstRunRest, Tokens, Acceptable
  <2>2. Passed'
    BY <1>1, <1>2, <2>1 DEF FirstRunInv, FirstRunRest, Tokens, Passed
  <2>3. QED
    BY <1>1, <2>2 DEF FirstRunInv, FirstRunRest, Tokens, Fresh, SingleUse
<1>7. KeyForTheDoor'
  BY <1>1 DEF FirstRunInv, FirstRunRest, KeyForTheDoor
<1>8. QED
  BY <1>4, <1>5, <1>6, <1>7 DEF FirstRunRest

(* What is so when a setup creates, and none of the races has happened: no *)
(* administrator is stored, and the token it has passed with is.           *)
LEMMA Creates ==
  ASSUME FirstRunInv, NEW r \in Request, CreateAdministrator(r), "save" \notin raced'
  PROVE  /\ raced' = raced /\ mem = disk /\ disk.admin = 0
         /\ raced = {} /\ with[r] # 0 =>
              required /\ ~locked /\ with[r] = disk.bootstrap.issue
<1>1. setupPc[r] = "creating" /\ model = 0
      /\ raced' = IF mem # disk \/ model # mem.admin THEN raced \cup {"save"} ELSE raced
  BY DEF CreateAdministrator, At, Free, Marks
<1>2. raced' = raced /\ mem = disk /\ disk.admin = 0
  BY <1>1
<1>3. raced = {} /\ with[r] # 0 => required /\ ~locked /\ with[r] = disk.bootstrap.issue
  BY <1>1 DEF FirstRunInv, FirstRunRest, Tokens, Passed
<1>4. QED
  BY <1>2, <1>3

LEMMA CreateInv ==
  ASSUME FirstRunAssumption, FirstRunInv, NEW r \in Request, CreateAdministrator(r)
  PROVE  FirstRunRest'
<1> DEFINE use == [admin |-> admins + 1, issue |-> with[r]]
<1>1. /\ setupPc[r] = "creating" /\ admins < MaxAdmins
      /\ disk' = [mem EXCEPT !.admin = admins + 1] /\ mem' = disk'
      /\ uses' = uses \cup {use}
      /\ setupPc' = [setupPc EXCEPT ![r] = "consuming"]
      /\ with' = [with EXCEPT ![r] = 0]
      /\ raced' = raced \/ raced' = raced \cup {"save"}
      /\ UNCHANGED <<up, required, locked, cli, own, issued>>
  BY DEF CreateAdministrator, At, Goto, Save, Marks, command
<1>2. /\ setupPc'[r] = "consuming"
      /\ \A s \in Request : s # r => setupPc'[s] = setupPc[s] /\ with'[s] = with[s]
  BY <1>1 DEF FirstRunInv, FirstRunTypeOK
<1>3. admins + 1 \in 0 .. MaxAdmins /\ admins + 1 # 0 /\ with[r] \in Nat /\ issued \in Nat
  BY <1>1 DEF FirstRunInv, FirstRunTypeOK, FirstRunAssumption
<1>4. disk'.admin = admins + 1 /\ disk'.bootstrap = mem.bootstrap
  BY <1>1, <1>3, WithAdmin DEF FirstRunInv, FirstRunTypeOK
<1>5. use.issue = with[r]
  OBVIOUS
<1> HIDE DEF use
<1>6. up
  BY <1>1, Working
<1>7. Door' /\ KeyForTheDoor'
  BY <1>1, <1>2, <1>3, <1>4 DEF FirstRunInv, FirstRunRest, Door, KeyForTheDoor
<1>8. Order'
  BY <1>1, <1>2, <1>6 DEF FirstRunInv, FirstRunRest, Order, InSetup
<1>9. ASSUME raced' = {}
      PROVE  /\ raced = {} /\ mem = disk
             /\ with[r] # 0 => with[r] = disk.bootstrap.issue /\ with[r] = issued
             /\ with[r] # 0 => \A u \in uses : u.issue # with[r]
  BY <1>9, Creates DEF FirstRunInv, FirstRunRest, Tokens, Fresh
<1>10. Tokens'
  <2> SUFFICES ASSUME raced' = {} PROVE Tokens'
    BY DEF Tokens
  <2>1. SingleUse'
    BY <1>1, <1>5, <1>9 DEF FirstRunInv, FirstRunRest, Tokens, SingleUse
  <2>2. Fresh'
    BY <1>3, <1>4 DEF Fresh
  <2>3. Passed'
    BY <1>1, <1>2 , <1>4, <1>9 DEF FirstRunInv, FirstRunRest, Tokens, Passed
  <2>4. \A u \in uses' : u.issue <= issued
    BY <1>1, <1>3, <1>5, <1>9 DEF FirstRunInv, FirstRunRest, Tokens
  <2>5. QED
    BY <1>1, <1>4, <1>9, <2>1, <2>2, <2>3, <2>4 DEF FirstRunInv, FirstRunRest, Tokens
<1>11. QED
  BY <1>7, <1>8, <1>10 DEF FirstRunRest

LEMMA ConsumeInv ==
  ASSUME FirstRunInv, NEW r \in Request, Consume(r)
  PROVE  FirstRunRest'
<1> DEFINE value == [mem EXCEPT !.bootstrap.consumed = @ \/ required]
<1>1. /\ setupPc[r] = "consuming"
      /\ setupPc' = [setupPc EXCEPT ![r] = "idle"]
      /\ UNCHANGED <<up, required, locked, with, cli, own, issued, uses>>
  BY DEF Consume, At, Goto, command
<1>2. CASE UNCHANGED <<disk, mem, raced>>
  BY <1>1, <1>2, QuietInv, Working
<1>3. CASE disk' = value /\ mem' = value /\ raced' = IF mem # disk THEN raced \cup {"save"} ELSE raced
  <2>1. value.admin = mem.admin /\ value.bootstrap.issue = mem.bootstrap.issue
        /\ value.bootstrap = [mem.bootstrap EXCEPT !.consumed = @ \/ required]
    BY WithConsumed DEF FirstRunInv, FirstRunTypeOK, LocalAuth
  <2> HIDE DEF value
  <2>2. /\ setupPc'[r] = "idle"
        /\ \A s \in Request : s # r => setupPc'[s] = setupPc[s]
    BY <1>1 DEF FirstRunInv, FirstRunTypeOK
  <2>3. up
    BY <1>1, Working
  <2>4. \A s \in Request : s # r => setupPc[s] \notin {"creating", "consuming"}
    BY <1>1 DEF FirstRunInv, FirstRunRest, Order, InSetup
  <2>5. Order' /\ Door'
    BY <1>1, <2>2, <2>3, <2>4 DEF FirstRunInv, FirstRunRest, Order, Door, InSetup
  <2>6. Tokens'
    <3> SUFFICES ASSUME raced' = {} PROVE Tokens'
      BY DEF Tokens
    <3>1. raced = {} /\ mem = disk
      BY <1>3
    <3>2. Fresh' /\ SingleUse'
      BY <1>1, <1>3, <2>1, <3>1 DEF FirstRunInv, FirstRunRest, Tokens, Fresh, SingleUse
    <3>3. Passed'
      BY <2>2, <2>4 DEF Passed
    <3>4. QED
      BY <1>1, <1>3, <2>1, <3>1, <3>2, <3>3 DEF FirstRunInv, FirstRunRest, Tokens
  <2>7. KeyForTheDoor'
    BY <1>1, <1>3, <2>1 DEF FirstRunInv, FirstRunRest, Door, KeyForTheDoor
  <2>8. QED
    BY <2>5, <2>6, <2>7 DEF FirstRunRest
<1>4. QED
  BY <1>2, <1>3 DEF Consume, Save, SaveFails, Marks

-----------------------------------------------------------------------------
(* Resets and the command `setup`. *)

LEMMA ResetInv ==
  ASSUME FirstRunAssumption, FirstRunInv, Reset \/ RecoverFile
  PROVE  FirstRunRest'
<1>1. /\ disk' = FirstRunState
      /\ UNCHANGED <<up, required, setupPc, with, cli, own, issued, uses>>
  BY DEF Reset, RecoverFile, Save, ResetLocalAuth, service, requests, command
<1>2. disk'.admin = 0 /\ disk'.bootstrap.issue = 0
  BY <1>1, FirstRunType
<1>3. \/ /\ up /\ mem' = disk' /\ locked' = TRUE
         /\ raced' = raced \/ raced' = raced \cup {"reset"}
         /\ raced' = {} => raced = {} /\ \A r \in Request : ~InSetup(r)
      \/ /\ ~up /\ UNCHANGED <<locked, raced>>
  BY DEF Reset, RecoverFile, Save, ResetLocalAuth, Marks, service
<1>4. ~up => \A r \in Request : setupPc[r] = "idle"
  BY DEF FirstRunInv, FirstRunRest, Order
<1>5. Order' /\ Door'
  BY <1>1, <1>3, <1>4 DEF FirstRunInv, FirstRunRest, Order, Door, InSetup
<1>6. Tokens'
  <2> SUFFICES ASSUME raced' = {} PROVE Tokens'
    BY DEF Tokens
  <2>1. raced = {} /\ \A r \in Request : setupPc[r] # "creating"
    BY <1>3, <1>4 DEF InSetup
  <2>2. Passed' /\ Fresh' /\ SingleUse'
    BY <1>1, <1>2, <2>1 DEF FirstRunInv, FirstRunRest, Tokens, Fresh, Passed, SingleUse
  <2>3. QED
    BY <1>1, <1>2, <1>3, <2>1, <2>2 DEF FirstRunInv, FirstRunRest, Tokens
<1>7. KeyForTheDoor'
  BY <1>1, <1>3 DEF KeyForTheDoor
<1>8. QED
  BY <1>5, <1>6, <1>7 DEF FirstRunRest

(* The service, its requests and what was issued and used stay; the file   *)
(* is the same, or a save from an older copy has put one with an           *)
(* administrator in its place.                                             *)
LEMMA CommandInv ==
  ASSUME FirstRunInv,
         UNCHANGED <<mem, up, required, locked, setupPc, with, issued, uses>>,
         cli' = "creating" => own'.admin = 0,
         cli' = "recording" => own'.admin # 0,
         raced' = raced \/ raced' = raced \cup {"save"},
         disk' = disk \/ disk'.admin # 0,
         raced' = {} => disk'.bootstrap = disk.bootstrap
  PROVE  FirstRunRest'
<1>1. Order' /\ Door'
  BY DEF FirstRunInv, FirstRunRest, Order, Door, InSetup
<1>2. Tokens'
  BY DEF FirstRunInv, FirstRunRest, Tokens, Fresh, Passed, SingleUse
<1>3. KeyForTheDoor'
  BY DEF FirstRunInv, FirstRunRest, KeyForTheDoor
<1>4. QED
  BY <1>1, <1>2, <1>3 DEF FirstRunRest

LEMMA CliInv ==
  ASSUME FirstRunInv, CliOpen \/ CliRecord \/ CliEnds
  PROVE  FirstRunRest'
<1>1. CASE CliOpen \/ CliEnds
  BY <1>1, CommandInv DEF CliOpen, CliEnds, service, requests, history
<1>2. CASE CliRecord
  <2>1. own.admin # 0
    BY <1>2 DEF CliRecord, FirstRunInv, FirstRunRest, Order
  <2>2. QED
    BY <1>2, <2>1, CommandInv DEF CliRecord, Marks, service, requests
<1>3. QED
  BY <1>1, <1>2

LEMMA CliCreateInv ==
  ASSUME FirstRunAssumption, FirstRunInv, CliCreate
  PROVE  FirstRunRest'
<1> DEFINE use == [admin |-> admins + 1, issue |-> 0]
<1>1. /\ admins < MaxAdmins
      /\ own' = [own EXCEPT !.admin = admins + 1] /\ disk' = own'
      /\ uses' = uses \cup {use} /\ cli' = "recording"
      /\ raced' = IF own # disk THEN raced \cup {"save"} ELSE raced
      /\ UNCHANGED <<mem, up, required, locked, setupPc, with, issued>>
  BY DEF CliCreate, Marks, service, requests
<1>2. admins + 1 \in 0 .. MaxAdmins /\ admins + 1 # 0 /\ issued \in Nat
  BY <1>1 DEF FirstRunInv, FirstRunTypeOK, FirstRunAssumption
<1>3. disk'.admin = admins + 1 /\ disk'.bootstrap = own.bootstrap
  BY <1>1, <1>2, WithAdmin DEF FirstRunInv, FirstRunTypeOK
<1>4. use.issue = 0
  OBVIOUS
<1> HIDE DEF use
<1>5. Order' /\ Door' /\ KeyForTheDoor'
  BY <1>1, <1>2, <1>3 DEF FirstRunInv, FirstRunRest, Order, Door, KeyForTheDoor, InSetup
<1>6. Tokens'
  <2> SUFFICES ASSUME raced' = {} PROVE Tokens'
    BY DEF Tokens
  <2>1. raced = {} /\ own = disk
    BY <1>1
  <2>2. Passed' /\ Fresh' /\ SingleUse'
    BY <1>1, <1>2, <1>3, <1>4, <2>1 DEF FirstRunInv, FirstRunRest, Tokens, Fresh, Passed, SingleUse
  <2>3. QED
    BY <1>1, <1>2, <1>3, <1>4, <2>1, <2>2 DEF FirstRunInv, FirstRunRest, Tokens
<1>7. QED
  BY <1>5, <1>6 DEF FirstRunRest

-----------------------------------------------------------------------------
LEMMA StepFirstRun ==
  ASSUME FirstRunAssumption
  PROVE  FirstRunInv /\ [FirstRunNext]_firstRunVars => FirstRunInv'
<1> SUFFICES ASSUME FirstRunInv, [FirstRunNext]_firstRunVars PROVE FirstRunInv'
  OBVIOUS
<1>1. FirstRunTypeOK'
  BY FirstRunTyped DEF FirstRunInv
<1>2. CASE StartFails \/ UNCHANGED firstRunVars
  <2>1. UNCHANGED <<disk, mem, up, required, locked, setupPc, with, cli, own, issued, uses, raced>>
    BY <1>2 DEF StartFails, firstRunVars, service, requests, command, history
  <2>2. Order' /\ Door' /\ KeyForTheDoor'
    BY <2>1 DEF FirstRunInv, FirstRunRest, Order, Door, KeyForTheDoor, InSetup
  <2>3. Tokens'
    BY <2>1 DEF FirstRunInv, FirstRunRest, Tokens, Fresh, Passed, SingleUse
  <2>4. QED
    BY <1>1, <2>2, <2>3 DEF FirstRunInv, FirstRunRest
<1>3. CASE FirstRunNext /\ ~StartFails
  <2>1. FirstRunRest'
    BY <1>3, StartInv, StartWithTokenInv, StopInv, ReloadInv, ReloadPublishInv, SetupInv, CheckInv,
       CreateInv, ConsumeInv, ResetInv, CliInv, CliCreateInv DEF FirstRunNext
  <2>2. QED
    BY <1>1, <2>1 DEF FirstRunRest, FirstRunInv
<1>4. QED
  BY <1>2, <1>3

THEOREM FirstRunInvariant == FirstRunAssumption => (FirstRunSpec => []FirstRunInv)
<1> SUFFICES ASSUME FirstRunAssumption PROVE FirstRunSpec => []FirstRunInv
  OBVIOUS
<1>1. FirstRunInit => FirstRunInv
  BY InitFirstRun
<1>2. FirstRunInv /\ [FirstRunNext]_firstRunVars => FirstRunInv'
  BY StepFirstRun
<1>3. QED
  BY <1>1, <1>2, PTL DEF FirstRunSpec

(* As long as no old Reload was published, no reset fell into a setup and  *)
(* no save was made from an old copy, no two administrators come from one  *)
(* token (TokenUsedOnce), whichever saves fail and wherever a process is   *)
(* killed; that each of the three races breaks it is the run TokenReused   *)
(* and the README's section 5.                                             *)
THEOREM TokensUsedOnce == FirstRunAssumption => (FirstRunSpec => []TokenUsedOnce)
<1>1. FirstRunInv => TokenUsedOnce
  BY DEF FirstRunInv, FirstRunRest, Tokens, TokenUsedOnce
<1>2. QED
  BY <1>1, FirstRunInvariant, PTL

(* While a first setup is due and a token is asked for, the one that was   *)
(* provisioned last is stored and not consumed (KeyForTheDoor), unless an  *)
(* old Reload was published: the saves from old copies and the resets do   *)
(* not break it.                                                           *)
THEOREM DoorHasKey == FirstRunAssumption => (FirstRunSpec => []KeyForTheDoor)
<1>1. FirstRunInv => KeyForTheDoor
  BY DEF FirstRunInv, FirstRunRest
<1>2. QED
  BY <1>1, FirstRunInvariant, PTL

(* The first administrator stays until a reset, unless a save from an old  *)
(* copy replaces him (FirstAdministratorKept): no Reload and no reset      *)
(* between the check of a setup and its save does.                         *)
THEOREM AdministratorStays == FirstRunAssumption => (FirstRunSpec => FirstAdministratorKept)
<1> SUFFICES ASSUME FirstRunAssumption PROVE FirstRunSpec => FirstAdministratorKept
  OBVIOUS
<1> DEFINE Kept == disk.admin # 0 /\ disk'.admin # disk.admin =>
                     resets' # resets \/ ServiceStale \/ CommandStale
<1>1. ASSUME FirstRunInv, [FirstRunNext]_firstRunVars PROVE [Kept]_firstRunVars
  <2> SUFFICES ASSUME FirstRunNext, ~ServiceStale, ~CommandStale PROVE Kept
    BY <1>1
  <2>1. CASE Start \/ StartFails \/ Stop \/ CliOpen \/ CliEnds
    BY <2>1 DEF Start, StartFails, Stop, CliOpen, CliEnds, firstRunVars
  <2>2. CASE StartWithToken
    BY <2>2 DEF StartWithToken
  <2>3. CASE Reset \/ RecoverFile
    <3>1. resets' = resets + 1
      BY <2>3 DEF Reset, RecoverFile
    <3>2. resets \in Nat
      BY <1>1 DEF FirstRunInv, FirstRunTypeOK, FirstRunAssumption
    <3>3. QED
      BY <3>1, <3>2
  <2>4. CASE CliRecord
    BY <2>4 DEF CliRecord, CommandStale
  <2>5. CASE CliCreate
    <3>1. own = disk /\ own.admin = 0
      BY <2>5, <1>1 DEF CliCreate, CommandStale, FirstRunInv, FirstRunRest, Order
    <3>2. QED
      BY <3>1
  <2>6. ASSUME NEW r \in Request,
               \/ ReloadRead(r) \/ ReloadPublish(r) \/ ReloadModel(r)
               \/ Setup(r) \/ Check(r) \/ CheckRefused(r) \/ CreateRefused(r)
        PROVE  Kept
    BY <2>6 DEF ReloadRead, ReloadPublish, ReloadModel, Setup, Check, CheckRefused, CreateRefused
  <2>7. ASSUME NEW r \in Request, CreateAdministrator(r) PROVE Kept
    <3>1. up /\ model = 0
      BY <2>7, <1>1, Working DEF CreateAdministrator, At, Free
    <3>2. disk.admin = 0
      BY <3>1 DEF ServiceStale
    <3>3. QED
      BY <3>2
  <2>8. ASSUME NEW r \in Request, Consume(r) PROVE Kept
    <3> DEFINE value == [mem EXCEPT !.bootstrap.consumed = @ \/ required]
    <3>1. disk' = disk \/ (disk' = value /\ mem = disk)
      BY <2>8, <1>1, Working DEF Consume, At, Save, SaveFails, ServiceStale
    <3>2. value.admin = mem.admin
      BY <1>1, WithConsumed DEF FirstRunInv, FirstRunTypeOK
    <3> HIDE DEF value
    <3>3. QED
      BY <3>1, <3>2
  <2>9. QED
    BY <2>1, <2>2, <2>3, <2>4, <2>5, <2>6, <2>7, <2>8 DEF FirstRunNext
<1>2. QED
  BY <1>1, FirstRunInvariant, PTL DEF FirstRunSpec, FirstAdministratorKept

(* Unless one of the three races has happened, an administrator that a     *)
(* token makes had the one that was provisioned last, in a service that    *)
(* was not reset since (LastTokenOnly).                                    *)
THEOREM LastTokenMakes == FirstRunAssumption => (FirstRunSpec => LastTokenOnly)
<1> SUFFICES ASSUME FirstRunAssumption PROVE FirstRunSpec => LastTokenOnly
  OBVIOUS
<1> DEFINE Last == \A u \in uses' \ uses : u.issue # 0 =>
                     raced' # {} \/ (u.issue = issued /\ ~locked)
<1>1. ASSUME FirstRunInv, [FirstRunNext]_firstRunVars PROVE [Last]_firstRunVars
  <2> SUFFICES ASSUME FirstRunNext, NEW u \in uses' \ uses, u.issue # 0, raced' = {}
      PROVE  u.issue = issued /\ ~locked
    BY <1>1
  <2>1. CASE CliCreate
    BY <2>1 DEF CliCreate
  <2>2. ASSUME NEW r \in Request, CreateAdministrator(r)
        PROVE  u.issue = issued /\ ~locked
    <3>1. u.issue = with[r]
      BY <2>2 DEF CreateAdministrator
    <3>2. /\ raced = {} /\ disk.admin = 0 /\ ~locked
          /\ u.issue = disk.bootstrap.issue
      BY <2>2, <3>1, <1>1, Creates
    <3>3. QED
      BY <3>2, <1>1 DEF FirstRunInv, FirstRunRest, Tokens, Fresh
  <2>3. CASE ~CliCreate /\ \A r \in Request : ~CreateAdministrator(r)
    <3>1. uses' = uses
      BY <2>3 DEF FirstRunNext, Start, StartWithToken, StartFails, Stop, Reset, RecoverFile,
                  CliOpen, CliRecord, CliEnds, ReloadRead, ReloadPublish, ReloadModel, Setup,
                  Check, CheckRefused, CreateRefused, Consume, firstRunVars, history
    <3>2. QED
      BY <3>1
  <2>4. QED
    BY <2>1, <2>2, <2>3
<1>2. QED
  BY <1>1, FirstRunInvariant, PTL DEF FirstRunSpec, LastTokenOnly

-----------------------------------------------------------------------------
(***************************************************************************)
(* The reset command.  Its three properties are inductive together with    *)
(* what holds while the command is between two of its calls: until the     *)
(* file is replaced it is what the command has read, from then on          *)
(* everything resets began with is in a backup, and what was replaced      *)
(* follows from what was read.                                             *)
(***************************************************************************)

(* The file is still what the command has read. *)
Untouched ==
  /\ resetPc \in {"backup", "recover"} => file = original
  /\ resetPc = "backup" => Exists(original)

(* What may be overwritten is in a backup. *)
BackedUp ==
  /\ resetPc = "recover" /\ Exists(original) => original.says \in backups
  /\ resetPc \in {"owner", "rollback", "rewrite", "remove"} => had \subseteq backups

(* What stands in the place of the original. *)
Replaced ==
  resetPc = "owner" =>
    /\ Exists(file)
    /\ file.says.auth = "default"
    /\ Envelope(original) => file.says.installation = original.says.installation
    /\ scope = "auth" => file.says.rest = original.says.rest

(* The way back that a failure takes, and how many calls have failed. *)
WayBack ==
  /\ resetPc \in {"rollback", "rewrite"} => Exists(original) /\ Exists(file)
  /\ resetPc = "remove" => ~Exists(original)
  /\ resetPc \in {"backup", "recover", "owner"} => faults = 0
  /\ resetPc \in {"rollback", "rewrite", "remove"} => faults = 1
  /\ resetPc # "idle" => outcome = "none"

Between == Untouched /\ BackedUp /\ Replaced /\ WayBack
Promised == OriginalRetained /\ FailureRestores /\ SuccessPreserves
RecoveryInv == RecoveryTypeOK /\ Between /\ Promised

-----------------------------------------------------------------------------
(* Files. *)

LEMMA NoFileType ==
  ASSUME RecoveryAssumption
  PROVE  ~Exists(NoFile) /\ Part \in Content /\ NoFile.says = Part
  BY DEF RecoveryAssumption, NoFile, Exists, Part, Content

LEMMA ExistingFile ==
  ASSUME RecoveryAssumption, NEW f \in File \cup {NoFile}
  PROVE  /\ Exists(f) <=> f \in File
         /\ ~Exists(f) <=> f = NoFile
         /\ f.says \in Content
<1>1. \A g \in File : Exists(g) /\ g.says \in Content
  BY DEF File, Exists, RecoveryAssumption
<1>2. QED
  BY <1>1, NoFileType

(* What a reset makes of a file. *)
LEMMA ResetContents ==
  ASSUME RecoveryAssumption, RecoveryInv, resetPc = "recover", scope = "auth" => Envelope(file)
  PROVE  LET says == IF scope = "auth" THEN AuthReset(file) ELSE FullReset(file) IN
           /\ says \in Content
           /\ says.auth = "default"
           /\ Envelope(file) => says.installation = file.says.installation
           /\ scope = "auth" => says.rest = file.says.rest
<1>1. file.says \in Content /\ recoveries \in 0 .. MaxRecoveries
  BY ExistingFile DEF RecoveryInv, RecoveryTypeOK
<1>2. file.says.installation \in 0 .. MaxEdits + MaxRecoveries /\ file.says.rest \in {"set", "default"}
  BY <1>1 DEF Content
<1>3. CASE scope = "auth"
  <2>1. AuthReset(file) \in Content /\ AuthReset(file).auth = "default"
        /\ AuthReset(file).installation = file.says.installation
        /\ AuthReset(file).rest = file.says.rest
    BY <1>1 DEF AuthReset, Content
  <2>2. QED
    BY <2>1, <1>3
<1>4. CASE scope # "auth"
  <2>1. MaxEdits + recoveries \in 0 .. MaxEdits + MaxRecoveries
    BY <1>1 DEF RecoveryAssumption
  <2>2. FullReset(file) \in Content /\ FullReset(file).auth = "default"
        /\ (Envelope(file) => FullReset(file).installation = file.says.installation)
    BY <1>2, <2>1 DEF FullReset, Content
  <2>3. QED
    BY <2>2, <1>4
<1>5. QED
  BY <1>3, <1>4

-----------------------------------------------------------------------------
LEMMA InitRecovery == ASSUME RecoveryAssumption PROVE RecoveryInit => RecoveryInv
<1> SUFFICES ASSUME RecoveryInit PROVE RecoveryInv
  OBVIOUS
<1>1. RecoveryTypeOK
  BY DEF RecoveryInit, RecoveryTypeOK, RecoveryAssumption
<1>2. Between
  BY DEF RecoveryInit, Between, Untouched, BackedUp, Replaced, WayBack
<1>3. Promised
  BY DEF RecoveryInit, Promised, OriginalRetained, FailureRestores, SuccessPreserves
<1>4. QED
  BY <1>1, <1>2, <1>3 DEF RecoveryInv

LEMMA EditInv == ASSUME RecoveryAssumption, RecoveryInv, Edit PROVE RecoveryInv'
<1>1. PICK auth \in {"set", "invalid"}, rest \in {"set", "default"},
           number \in {0, edits + 1}, owner \in {Service, Other} :
        file' = [says |-> [installation |-> number, auth |-> auth, rest |-> rest],
                 owner |-> owner]
  BY DEF Edit
<1>2. edits \in 0 .. MaxEdits /\ edits < MaxEdits
  BY DEF Edit, RecoveryInv, RecoveryTypeOK
<1>3. number \in 0 .. MaxEdits + MaxRecoveries
  BY <1>2 DEF RecoveryAssumption
<1>4. file' \in File
  BY <1>1, <1>3 DEF File, Content
<1>5. edits' \in 0 .. MaxEdits
  BY <1>2 DEF Edit, RecoveryAssumption
<1>6. had' = had \cap backups /\ outcome' = "none" /\ resetPc = "idle"
      /\ UNCHANGED <<backups, resetPc, scope, original, faults, recoveries>>
  BY DEF Edit, AtCall, progress
<1>7. RecoveryTypeOK'
  BY <1>4, <1>5, <1>6 DEF RecoveryInv, RecoveryTypeOK
<1>8. Between'
  BY <1>6 DEF Between, Untouched, BackedUp, Replaced, WayBack
<1>9. Promised'
  BY <1>6 DEF Promised, OriginalRetained, FailureRestores, SuccessPreserves
<1>10. QED
  BY <1>7, <1>8, <1>9 DEF RecoveryInv

LEMMA BeginInv ==
  ASSUME RecoveryAssumption, RecoveryInv, NEW which \in {"auth", "all"}, Begin(which)
  PROVE  RecoveryInv'
<1>1. /\ recoveries \in 0 .. MaxRecoveries /\ recoveries < MaxRecoveries /\ recoveries' = recoveries + 1
      /\ scope' = which /\ original' = file /\ faults' = 0 /\ outcome' = "none"
      /\ had' = (IF Exists(file) THEN had \cup {file.says} ELSE had)
      /\ resetPc' = (IF Exists(file) THEN "backup" ELSE "recover")
      /\ UNCHANGED <<file, backups, edits>>
  BY DEF Begin, AtCall, GotoCall, RecoveryInv, RecoveryTypeOK
<1>2. recoveries' \in 0 .. MaxRecoveries
  BY <1>1 DEF RecoveryAssumption
<1>3. Exists(file) => file.says \in Content
  BY ExistingFile DEF RecoveryInv, RecoveryTypeOK
<1>4. RecoveryTypeOK'
  BY <1>1, <1>2, <1>3 DEF RecoveryInv, RecoveryTypeOK
<1>5. Between'
  BY <1>1 DEF Between, Untouched, BackedUp, Replaced, WayBack, Exists
<1>6. Promised'
  BY <1>1 DEF RecoveryInv, Promised, OriginalRetained, FailureRestores, SuccessPreserves, Exists
<1>7. QED
  BY <1>4, <1>5, <1>6 DEF RecoveryInv

LEMMA BackupInv == ASSUME RecoveryAssumption, RecoveryInv, Backup \/ BackupFails PROVE RecoveryInv'
<1>1. original.says \in Content /\ Part \in Content
  BY ExistingFile, NoFileType DEF RecoveryInv, RecoveryTypeOK
<1>2. CASE Backup
  <2>1. /\ resetPc = "backup" /\ resetPc' = "recover" /\ backups' = backups \cup {original.says}
        /\ UNCHANGED <<file, scope, original, faults, outcome, recoveries, edits, had>>
    BY <1>2 DEF Backup, AtCall, GotoCall, bounds
  <2>2. RecoveryTypeOK'
    BY <1>1, <2>1 DEF RecoveryInv, RecoveryTypeOK
  <2>3. Between'
    BY <2>1 DEF RecoveryInv, Between, Untouched, BackedUp, Replaced, WayBack
  <2>4. Promised'
    BY <2>1 DEF RecoveryInv, Between, WayBack, Promised, OriginalRetained, FailureRestores,
                SuccessPreserves, Exists
  <2>5. QED
    BY <2>2, <2>3, <2>4 DEF RecoveryInv
<1>3. CASE BackupFails
  <2>1. /\ resetPc = "backup" /\ resetPc' = "idle" /\ outcome' = "failed" /\ faults' = faults + 1
        /\ backups' \in {backups, backups \cup {Part}}
        /\ UNCHANGED <<file, scope, original, recoveries, edits, had>>
    BY <1>3 DEF BackupFails, AtCall, GotoCall, Report, Fault, bounds
  <2>2. file = original /\ faults = 0
    BY <2>1 DEF RecoveryInv, Between, Untouched, WayBack
  <2>3. RecoveryTypeOK'
    BY <1>1, <2>1, <2>2 DEF RecoveryInv, RecoveryTypeOK
  <2>4. Between'
    BY <2>1 DEF Between, Untouched, BackedUp, Replaced, WayBack
  <2>5. Promised'
    BY <2>1, <2>2 DEF RecoveryInv, Promised, OriginalRetained, FailureRestores,
                      SuccessPreserves, Exists
  <2>6. QED
    BY <2>3, <2>4, <2>5 DEF RecoveryInv
<1>4. QED
  BY <1>2, <1>3

LEMMA RecoverInv == ASSUME RecoveryAssumption, RecoveryInv, Recover PROVE RecoveryInv'
<1> DEFINE says == IF scope = "auth" THEN AuthReset(file) ELSE FullReset(file)
<1>1. /\ resetPc = "recover" /\ resetPc' = "owner" /\ (scope = "auth" => Envelope(file))
      /\ file' = [says |-> says, owner |-> Service]
      /\ UNCHANGED <<backups, scope, original, faults, outcome, recoveries, edits, had>>
  BY DEF Recover, AtCall, GotoCall, bounds
<1>2. /\ says \in Content /\ says.auth = "default"
      /\ Envelope(file) => says.installation = file.says.installation
      /\ scope = "auth" => says.rest = file.says.rest
  BY <1>1, ResetContents
<1> HIDE DEF says
<1>3. file = original /\ faults = 0 /\ outcome = "none"
      /\ (Exists(original) => original.says \in backups)
  BY <1>1 DEF RecoveryInv, Between, Untouched, BackedUp, WayBack
<1>4. had \subseteq backups
  BY <1>3 DEF RecoveryInv, Promised, OriginalRetained
<1>5. file' \in File /\ Exists(file')
  BY <1>1, <1>2 DEF File, Exists, RecoveryAssumption
<1>6. RecoveryTypeOK'
  BY <1>1, <1>5 DEF RecoveryInv, RecoveryTypeOK
<1>7. Between'
  BY <1>1, <1>2, <1>3, <1>4, <1>5 DEF Between, Untouched, BackedUp, Replaced, WayBack,
                                      Envelope, Exists
<1>8. Promised'
  BY <1>1, <1>3, <1>4 DEF Promised, OriginalRetained, FailureRestores, SuccessPreserves
<1>9. QED
  BY <1>6, <1>7, <1>8 DEF RecoveryInv

LEMMA RecoverFailsInv ==
  ASSUME RecoveryAssumption, RecoveryInv, RecoverFails \/ RecoverRefuses
  PROVE  RecoveryInv'
<1>1. /\ resetPc = "recover" /\ resetPc' = "idle" /\ outcome' = "failed"
      /\ faults' \in {faults, faults + 1}
      /\ UNCHANGED <<file, backups, scope, original, recoveries, edits, had>>
  BY DEF RecoverFails, RecoverRefuses, AtCall, GotoCall, Report, Fault, bounds
<1>2. file = original /\ faults = 0
  BY <1>1 DEF RecoveryInv, Between, Untouched, WayBack
<1>3. RecoveryTypeOK'
  BY <1>1, <1>2 DEF RecoveryInv, RecoveryTypeOK
<1>4. Between'
  BY <1>1 DEF Between, Untouched, BackedUp, Replaced, WayBack
<1>5. Promised'
  BY <1>1, <1>2 DEF RecoveryInv, Promised, OriginalRetained, FailureRestores,
                    SuccessPreserves, Exists
<1>6. QED
  BY <1>3, <1>4, <1>5 DEF RecoveryInv

LEMMA OwnerInv ==
  ASSUME RecoveryAssumption, RecoveryInv, RestoreOwner \/ OwnerFails
  PROVE  RecoveryInv'
<1>1. resetPc = "owner"
  BY DEF RestoreOwner, OwnerFails, AtCall
<1>2. /\ faults = 0 /\ had \subseteq backups /\ file \in File
      /\ file.says.auth = "default"
      /\ Envelope(original) => file.says.installation = original.says.installation
      /\ scope = "auth" => file.says.rest = original.says.rest
  BY <1>1, ExistingFile DEF RecoveryInv, RecoveryTypeOK, Between, BackedUp, Replaced, WayBack
<1>3. CASE RestoreOwner
  <2>1. /\ resetPc' = "idle" /\ outcome' = "ok" /\ file' = [file EXCEPT !.owner = PriorOwner]
        /\ UNCHANGED <<backups, scope, original, faults, recoveries, edits, had>>
    BY <1>3 DEF RestoreOwner, GotoCall, Report, bounds
  <2>2. PriorOwner \in {Service, Other}
    BY ExistingFile DEF PriorOwner, RecoveryInv, RecoveryTypeOK, File
  <2>3. file' \in File /\ file'.says = file.says /\ file'.owner = PriorOwner
    BY <1>2, <2>1, <2>2 DEF File
  <2>4. RecoveryTypeOK'
    BY <2>1, <2>3 DEF RecoveryInv, RecoveryTypeOK
  <2>5. Between'
    BY <2>1 DEF Between, Untouched, BackedUp, Replaced, WayBack
  <2>6. Promised'
    BY <1>2, <2>1, <2>3 DEF Promised, OriginalRetained, FailureRestores, SuccessPreserves,
                            PriorOwner, Envelope, Exists
  <2>7. QED
    BY <2>4, <2>5, <2>6 DEF RecoveryInv
<1>4. CASE OwnerFails
  <2>1. /\ resetPc' = (IF Exists(original) THEN "rollback" ELSE "remove") /\ faults' = faults + 1
        /\ UNCHANGED <<file, backups, scope, original, outcome, recoveries, edits, had>>
    BY <1>4 DEF OwnerFails, GotoCall, Fault, bounds
  <2>2. RecoveryTypeOK'
    BY <1>2, <2>1 DEF RecoveryInv, RecoveryTypeOK
  <2>3. Exists(file)
    BY <1>2, ExistingFile
  <2>4. Between'
    BY <1>1, <1>2, <2>1, <2>3 DEF RecoveryInv, Between, Untouched, BackedUp, Replaced,
                                  WayBack, Exists
  <2>5. Promised'
    BY <1>1, <1>2, <2>1 DEF RecoveryInv, Between, WayBack, Promised, OriginalRetained,
                            FailureRestores,
                            SuccessPreserves
  <2>6. QED
    BY <2>2, <2>4, <2>5 DEF RecoveryInv
<1>5. QED
  BY <1>3, <1>4

LEMMA WayBackInv ==
  ASSUME RecoveryAssumption, RecoveryInv, TruncateFile \/ Rewrite \/ RewriteFails \/ Remove
  PROVE  RecoveryInv'
<1>1. resetPc \in {"rollback", "rewrite", "remove"}
  BY DEF TruncateFile, Rewrite, RewriteFails, Remove, AtCall
<1>2. faults = 1 /\ had \subseteq backups /\ outcome = "none"
  BY <1>1 DEF RecoveryInv, Between, BackedUp, WayBack
<1>3. CASE TruncateFile
  <2>1. /\ resetPc = "rollback" /\ resetPc' = "rewrite" /\ file' = [file EXCEPT !.says = Part]
        /\ UNCHANGED <<backups, scope, original, faults, outcome, recoveries, edits, had>>
    BY <1>3 DEF TruncateFile, AtCall, GotoCall, bounds
  <2>2. file \in File /\ Part \in Content /\ Exists(original)
    BY <2>1, ExistingFile, NoFileType DEF RecoveryInv, RecoveryTypeOK, Between, WayBack
  <2>3. file' \in File
    BY <2>1, <2>2 DEF File
  <2>4. Exists(file')
    BY <2>3 DEF File, Exists, RecoveryAssumption
  <2>5. RecoveryTypeOK'
    BY <2>1, <2>3 DEF RecoveryInv, RecoveryTypeOK
  <2>6. Between'
    BY <1>2, <2>1, <2>2, <2>4 DEF Between, Untouched, BackedUp, Replaced, WayBack, Exists
  <2>7. Promised'
    BY <1>2, <2>1 DEF Promised, OriginalRetained, FailureRestores, SuccessPreserves
  <2>8. QED
    BY <2>5, <2>6, <2>7 DEF RecoveryInv
<1>4. CASE Rewrite
  <2>1. PICK owner \in {file.owner, PriorOwner} : file' = [says |-> original.says, owner |-> owner]
    BY <1>4 DEF Rewrite
  <2>2. /\ resetPc = "rewrite" /\ resetPc' = "idle" /\ outcome' = "failed"
        /\ UNCHANGED <<backups, scope, original, faults, recoveries, edits, had>>
    BY <1>4 DEF Rewrite, AtCall, GotoCall, Report, bounds
  <2>3. file \in File /\ original \in File /\ Exists(original)
    BY <2>2, ExistingFile DEF RecoveryInv, RecoveryTypeOK, Between, WayBack
  <2>4. owner \in {Service, Other} /\ original.says \in Content
    BY <2>3 DEF File, PriorOwner
  <2>5. file' \in File /\ Exists(file') /\ file'.says = original.says
    BY <2>1, <2>4 DEF File, Exists, RecoveryAssumption
  <2>6. RecoveryTypeOK'
    BY <2>2, <2>5 DEF RecoveryInv, RecoveryTypeOK
  <2>7. Between'
    BY <2>2 DEF Between, Untouched, BackedUp, Replaced, WayBack
  <2>8. Promised'
    BY <1>2, <2>2, <2>3, <2>5 DEF Promised, OriginalRetained, FailureRestores,
                                  SuccessPreserves, Exists
  <2>9. QED
    BY <2>6, <2>7, <2>8 DEF RecoveryInv
<1>5. CASE RewriteFails \/ (Remove /\ UNCHANGED file /\ Fault)
  <2>1. /\ resetPc' = "idle" /\ outcome' = "failed" /\ faults' = faults + 1
        /\ UNCHANGED <<file, backups, scope, original, recoveries, edits, had>>
    BY <1>5 DEF RewriteFails, Remove, GotoCall, Report, Fault, bounds
  <2>2. RecoveryTypeOK'
    BY <1>2, <2>1 DEF RecoveryInv, RecoveryTypeOK
  <2>3. Between'
    BY <2>1 DEF Between, Untouched, BackedUp, Replaced, WayBack
  <2>4. Promised'
    BY <1>2, <2>1 DEF Promised, OriginalRetained, FailureRestores, SuccessPreserves
  <2>5. QED
    BY <2>2, <2>3, <2>4 DEF RecoveryInv
<1>6. CASE Remove /\ file' = NoFile /\ UNCHANGED faults
  <2>1. /\ resetPc = "remove" /\ resetPc' = "idle" /\ outcome' = "failed"
        /\ file' = NoFile /\ UNCHANGED faults
        /\ UNCHANGED <<backups, scope, original, recoveries, edits, had>>
    BY <1>6 DEF Remove, AtCall, GotoCall, Report, bounds
  <2>2. original = NoFile
    BY <2>1, ExistingFile DEF RecoveryInv, RecoveryTypeOK, Between, WayBack
  <2>3. RecoveryTypeOK'
    BY <2>1 DEF RecoveryInv, RecoveryTypeOK
  <2>4. Between'
    BY <2>1 DEF Between, Untouched, BackedUp, Replaced, WayBack
  <2>5. Promised'
    BY <1>2, <2>1, <2>2 DEF Promised, OriginalRetained, FailureRestores, SuccessPreserves, Exists
  <2>6. QED
    BY <2>3, <2>4, <2>5 DEF RecoveryInv
<1>7. Remove => (Remove /\ UNCHANGED file /\ Fault) \/ (Remove /\ file' = NoFile /\ UNCHANGED faults)
  BY DEF Remove
<1>8. QED
  BY <1>3, <1>4, <1>5, <1>6, <1>7

LEMMA KilledInv == ASSUME RecoveryAssumption, RecoveryInv, Killed PROVE RecoveryInv'
<1>1. /\ resetPc' = "idle" /\ outcome' = "none"
      /\ backups' \in {backups, backups \cup {Part}}
      /\ UNCHANGED <<file, scope, original, faults, recoveries, edits, had>>
  BY DEF Killed, GotoCall, Report, bounds
<1>2. RecoveryTypeOK'
  BY <1>1, NoFileType DEF RecoveryInv, RecoveryTypeOK
<1>3. Between'
  BY <1>1 DEF Between, Untouched, BackedUp, Replaced, WayBack
<1>4. Promised'
  BY <1>1 DEF RecoveryInv, Promised, OriginalRetained, FailureRestores, SuccessPreserves, Exists
<1>5. QED
  BY <1>2, <1>3, <1>4 DEF RecoveryInv

LEMMA StepRecovery ==
  ASSUME RecoveryAssumption
  PROVE  RecoveryInv /\ [RecoveryNext]_recoveryVars => RecoveryInv'
<1> SUFFICES ASSUME RecoveryInv, [RecoveryNext]_recoveryVars PROVE RecoveryInv'
  OBVIOUS
<1>1. CASE UNCHANGED recoveryVars
  <2>1. UNCHANGED <<file, backups, resetPc, scope, original, faults, outcome, recoveries, edits, had>>
    BY <1>1 DEF recoveryVars, progress, bounds
  <2>2. QED
    BY <2>1 DEF RecoveryInv, RecoveryTypeOK, Between, Untouched, BackedUp, Replaced,
                WayBack, Promised,
                OriginalRetained, FailureRestores, SuccessPreserves, PriorOwner, Envelope, Exists
<1>2. CASE RecoveryNext
  BY <1>2, EditInv, BeginInv, BackupInv, RecoverInv, RecoverFailsInv, OwnerInv, WayBackInv,
     KilledInv DEF RecoveryNext
<1>3. QED
  BY <1>1, <1>2

THEOREM RecoveryInvariant == RecoveryAssumption => (RecoverySpec => []RecoveryInv)
<1> SUFFICES ASSUME RecoveryAssumption PROVE RecoverySpec => []RecoveryInv
  OBVIOUS
<1>1. RecoveryInit => RecoveryInv
  BY InitRecovery
<1>2. RecoveryInv /\ [RecoveryNext]_recoveryVars => RecoveryInv'
  BY StepRecovery
<1>3. QED
  BY <1>1, <1>2, PTL DEF RecoverySpec

(* "Both modes retain timestamped backups" (OriginalRetained): at every    *)
(* moment of every reset, however often it is repeated, fails or is        *)
(* killed, what agent.json said is in a backup or still in agent.json.     *)
THEOREM BackupsRetain == RecoveryAssumption => (RecoverySpec => []OriginalRetained)
<1>1. RecoveryInv => OriginalRetained
  BY DEF RecoveryInv, Promised
<1>2. QED
  BY <1>1, RecoveryInvariant, PTL

(* A reset that fails once says what was there before (FailureRestores).   *)
THEOREM FailuresRestore == RecoveryAssumption => (RecoverySpec => []FailureRestores)
<1>1. RecoveryInv => FailureRestores
  BY DEF RecoveryInv, Promised
<1>2. QED
  BY <1>1, RecoveryInvariant, PTL

(* A reset that succeeds keeps installation, owner and, with --auth, the   *)
(* pairing and the collectors (SuccessPreserves).                          *)
THEOREM SuccessesPreserve == RecoveryAssumption => (RecoverySpec => []SuccessPreserves)
<1>1. RecoveryInv => SuccessPreserves
  BY DEF RecoveryInv, Promised
<1>2. QED
  BY <1>1, RecoveryInvariant, PTL

-----------------------------------------------------------------------------
(***************************************************************************)
(* The four parts side by side.                                            *)
(***************************************************************************)
Everything == <<part, dataDirVars, unitConfigVars, firstRunVars, recoveryVars>>

LEMMA InitParts == Init => DataDirInit /\ UnitConfigInit /\ FirstRunInit /\ RecoveryInit
  BY DEF Init, DirectoryRests, ListenerRests

LEMMA StepParts ==
  [Next]_Everything => /\ [DataDirNext]_dataDirVars
                       /\ [UnitConfigNext]_unitConfigVars
                       /\ [FirstRunNext]_firstRunVars
                       /\ [RecoveryNext]_recoveryVars
  BY DEF Next, Everything

(* What the instance of the four parts does is what each of them does, or  *)
(* nothing: no step of one is a step of another, and what is proved about  *)
(* a part holds in the instance.                                           *)
THEOREM PartsSideBySide == Spec => DataDirSpec /\ UnitConfigSpec /\ FirstRunSpec /\ RecoverySpec
  BY InitParts, StepParts, PTL
     DEF Spec, Everything, DataDirSpec, UnitConfigSpec, FirstRunSpec, RecoverySpec

(* Every variable of the four parts keeps its type (TypeOK).               *)
THEOREM PartsTypeCorrect ==
  PartsAssumption => (Spec => []TypeOK)
<1> SUFFICES ASSUME PartsAssumption PROVE Spec => []TypeOK
  OBVIOUS
<1>1. DataDirSpec => []DataDirInv
  BY Invariance DEF PartsAssumption
<1>2. UnitConfigInit => UnitConfigInv
  BY InitUnitConfig DEF PartsAssumption, ListenerAssumption
<1>3. UnitConfigInv /\ [UnitConfigNext]_unitConfigVars => UnitConfigInv'
  BY StepUnitConfig DEF PartsAssumption, ListenerAssumption
<1>4. FirstRunSpec => []FirstRunInv
  BY FirstRunInvariant DEF PartsAssumption
<1>5. RecoverySpec => []RecoveryInv
  BY RecoveryInvariant DEF PartsAssumption
<1>6. DataDirInv /\ UnitConfigInv /\ FirstRunInv /\ RecoveryInv => TypeOK
  BY DEF TypeOK, DataDirInv, UnitConfigInv, FirstRunInv, RecoveryInv
<1>7. QED
  BY <1>1, <1>2, <1>3, <1>4, <1>5, <1>6, PartsSideBySide, PTL DEF UnitConfigSpec

=============================================================================
