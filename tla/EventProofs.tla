---------------------------- MODULE EventProofs -----------------------------
(***************************************************************************)
(* Proofs about the two ways in which events reach the main loop.          *)
(*                                                                         *)
(* The dispatcher: for any number of sources and of signals, whatever the  *)
(* handlers do, no source touches a destroyed dispatcher, no signal waits  *)
(* without a source, and signals are received once and in order.           *)
(*                                                                         *)
(* The directory watcher: for any number of files and of changes of the    *)
(* settings, in a directory that may be moved or deleted, torrents are     *)
(* loaded with the settings of the directory they appeared in, and a       *)
(* change of settings misses none.  Whatever waits between inotify and the *)
(* loading is of the directory watched last, as the thread ends only when  *)
(* there are no events, and new settings come only when the queue is empty. *)
(***************************************************************************)
EXTENDS Dispatcher, FsWatcher, SequenceTheorems, TLAPS

-----------------------------------------------------------------------------
(***************************************************************************)
(* The dispatcher.                                                         *)
(***************************************************************************)

(* The one source that is connected is the one the dispatcher knows of, which
   exists while there are signals. *)
Wired ==
    /\ \A h \in Handlers : connected[h] <=> h = handler
    /\ \A h \in Handlers : connected[h] => source[h] # "none"
    /\ alive => \A h \in Handlers : source[h] # "none" => connected[h]
    /\ ~alive => handler = Null
    /\ emiters # <<>> => handler # Null

(* The queue holds the signals emitted and not received, in order. *)
Numbered ==
    alive => /\ emitted = delivered + Len(emiters)
             /\ \A i \in 1..Len(emiters) : emiters[i] = delivered + i

DispatcherInv == DispatcherTypeOK /\ Wired /\ Numbered

LEMMA InitDispatcherInv == DispatcherInit => DispatcherInv
<1> SUFFICES ASSUME DispatcherInit PROVE DispatcherInv
  OBVIOUS
<1>1. DispatcherTypeOK
  <2>1. <<>> \in Seq(1..MaxSignals)
    BY EmptySeq
  <2>2. 0 \in 0..MaxSignals
    BY DispatcherAssumption DEF DispatcherAssumption
  <2> QED
    BY <2>1, <2>2 DEF DispatcherInit, DispatcherTypeOK
<1>2. Wired
  BY DispatcherAssumption DEF DispatcherAssumption, DispatcherInit, Wired
<1>3. Numbered
  BY DEF DispatcherInit, Numbered
<1> QED
  BY <1>1, <1>2, <1>3 DEF DispatcherInv

LEMMA DispatcherStepTypeOK ==
  DispatcherTypeOK /\ [DispatcherNext]_dispatcherVars => DispatcherTypeOK'
<1> SUFFICES ASSUME DispatcherTypeOK, [DispatcherNext]_dispatcherVars
             PROVE  DispatcherTypeOK'
  OBVIOUS
<1> USE DispatcherAssumption DEF DispatcherAssumption
<1>1. CASE Emit
  <2>1. emitted' \in 1..MaxSignals
    BY <1>1 DEF DispatcherTypeOK, Emit
  <2>2. emiters' \in Seq(1..MaxSignals)
    BY <1>1, <2>1 DEF DispatcherTypeOK, Emit
  <2>3. CASE handler = Null
    <3>1. PICK h \in Handlers : /\ handler' = h
                                /\ source' = [source EXCEPT ![h] = "idle"]
                                /\ connected' = [connected EXCEPT ![h] = TRUE]
      BY <1>1, <2>3 DEF Emit
    <3>2. source' \in [Handlers -> {"none", "idle", "loop", "emit"}]
      BY <3>1 DEF DispatcherTypeOK
    <3>3. connected' \in [Handlers -> BOOLEAN]
      BY <3>1 DEF DispatcherTypeOK
    <3>4. alive' = alive /\ delivered' = delivered
      BY <1>1 DEF Emit
    <3> QED
      BY <2>1, <2>2, <3>1, <3>2, <3>3, <3>4 DEF DispatcherTypeOK
  <2>4. CASE handler # Null
    BY <1>1, <2>1, <2>2, <2>4 DEF DispatcherTypeOK, Emit
  <2> QED
    BY <2>3, <2>4
<1>2. CASE Destroy
  <2>1. \A h \in Handlers : (connected[h] /\ h # handler) \in BOOLEAN
    OBVIOUS
  <2>2. connected' \in [Handlers -> BOOLEAN]
    BY <1>2, <2>1 DEF Destroy
  <2> QED
    BY <1>2, <2>2, EmptySeq DEF DispatcherTypeOK, Destroy
<1>3. ASSUME NEW h \in Handlers, Call(h) PROVE DispatcherTypeOK'
  BY <1>3 DEF DispatcherTypeOK, Call
<1>4. ASSUME NEW h \in Handlers, Take(h) PROVE DispatcherTypeOK'
  <2>1. Head(emiters) \in 1..MaxSignals /\ Tail(emiters) \in Seq(1..MaxSignals)
    BY <1>4, HeadTailProperties DEF DispatcherTypeOK, Take
  <2>2. Head(emiters) \in 0..MaxSignals
    BY <2>1
  <2> QED
    BY <1>4, <2>1, <2>2 DEF DispatcherTypeOK, Take
<1>5. ASSUME NEW h \in Handlers, Return(h) PROVE DispatcherTypeOK'
  BY <1>5 DEF DispatcherTypeOK, Return
<1>6. ASSUME NEW h \in Handlers, Finish(h) PROVE DispatcherTypeOK'
  BY <1>6 DEF DispatcherTypeOK, Finish
<1>7. CASE UNCHANGED dispatcherVars
  BY <1>7 DEF DispatcherTypeOK, dispatcherVars
<1> QED
  BY <1>1, <1>2, <1>3, <1>4, <1>5, <1>6, <1>7 DEF DispatcherNext, Source

(* Only the source that ends, disconnected or with an empty queue, and the
   destructor part the dispatcher from its source. *)
LEMMA StepWired ==
  DispatcherTypeOK /\ Wired /\ [DispatcherNext]_dispatcherVars => Wired'
<1> SUFFICES ASSUME DispatcherTypeOK, Wired, [DispatcherNext]_dispatcherVars
             PROVE  Wired'
  OBVIOUS
<1> USE DispatcherAssumption DEF DispatcherAssumption
<1>1. CASE Emit
  <2>1. CASE handler = Null
    <3>1. PICK h \in Handlers : /\ handler' = h
                                /\ source' = [source EXCEPT ![h] = "idle"]
                                /\ connected' = [connected EXCEPT ![h] = TRUE]
      BY <1>1, <2>1 DEF Emit
    <3>2. \A g \in Handlers : ~connected[g]
      BY <2>1 DEF Wired
    <3>3. \A g \in Handlers : connected'[g] <=> g = handler'
      BY <3>1, <3>2 DEF DispatcherTypeOK
    <3>4. \A g \in Handlers : source'[g] # "none" <=> g = h \/ source[g] # "none"
      BY <3>1 DEF DispatcherTypeOK
    <3>5. alive /\ alive' /\ handler' # Null
      BY <1>1, <3>1 DEF Emit
    <3> QED
      BY <3>1, <3>2, <3>3, <3>4, <3>5 DEF Wired
  <2>2. CASE handler # Null
    BY <1>1, <2>2 DEF Emit, Wired
  <2> QED
    BY <2>1, <2>2
<1>2. CASE Destroy
  <2>1. \A h \in Handlers : connected'[h] <=> connected[h] /\ h # handler
    BY <1>2 DEF Destroy
  <2>2. ~alive' /\ handler' = Null /\ emiters' = <<>>
    BY <1>2 DEF Destroy
  <2> QED
    BY <2>1, <2>2 DEF Wired
<1>3. ASSUME NEW h \in Handlers, Call(h) PROVE Wired'
  BY <1>3 DEF Wired, Call, DispatcherTypeOK
<1>4. ASSUME NEW h \in Handlers, Take(h) PROVE Wired'
  <2>1. handler # Null
    BY <1>4 DEF Take, Wired
  <2> QED
    BY <1>4, <2>1 DEF Wired, Take, DispatcherTypeOK
<1>5. ASSUME NEW h \in Handlers, Return(h) PROVE Wired'
  BY <1>5 DEF Wired, Return, DispatcherTypeOK
<1>6. ASSUME NEW h \in Handlers, Finish(h) PROVE Wired'
  <2>1. \A g \in Handlers : connected'[g] <=> connected[g] /\ g # h
    BY <1>6 DEF Finish, DispatcherTypeOK
  <2>2. \A g \in Handlers : source'[g] # "none" <=> source[g] # "none" /\ g # h
    BY <1>6 DEF Finish, DispatcherTypeOK
  <2>3. CASE connected[h]
    BY <1>6, <2>1, <2>2, <2>3 DEF Finish, Wired
  <2>4. CASE ~connected[h]
    BY <1>6, <2>1, <2>2, <2>4 DEF Finish, Wired
  <2> QED
    BY <2>3, <2>4
<1>7. CASE UNCHANGED dispatcherVars
  BY <1>7 DEF Wired, dispatcherVars
<1> QED
  BY <1>1, <1>2, <1>3, <1>4, <1>5, <1>6, <1>7 DEF DispatcherNext, Source

LEMMA StepNumbered ==
  DispatcherTypeOK /\ Numbered /\ [DispatcherNext]_dispatcherVars => Numbered'
<1> SUFFICES ASSUME DispatcherTypeOK, Numbered, [DispatcherNext]_dispatcherVars
             PROVE  Numbered'
  OBVIOUS
<1>1. ASSUME UNCHANGED <<alive, emiters, emitted, delivered>> PROVE Numbered'
  BY <1>1 DEF Numbered
<1>2. CASE Emit
  <2>1. /\ Len(emiters') = Len(emiters) + 1
        /\ \A i \in 1..Len(emiters) : emiters'[i] = emiters[i]
        /\ emiters'[Len(emiters) + 1] = emitted + 1
    BY <1>2 DEF DispatcherTypeOK, Emit
  <2>2. emitted = delivered + Len(emiters) /\ emitted' = emitted + 1 /\ delivered' = delivered
    BY <1>2 DEF Emit, Numbered
  <2>3. ASSUME NEW i \in 1..Len(emiters') PROVE emiters'[i] = delivered' + i
    <3>0. Len(emiters) \in Nat /\ delivered \in Nat
      BY DEF DispatcherTypeOK
    <3>1. CASE i = Len(emiters) + 1
      BY <2>1, <2>2, <3>0, <3>1
    <3>2. CASE i # Len(emiters) + 1
      <4>1. i \in 1..Len(emiters)
        BY <2>1, <3>0, <3>2
      <4> QED
        BY <1>2, <2>1, <2>2, <4>1 DEF Numbered, Emit
    <3> QED
      BY <3>1, <3>2
  <2> QED
    BY <2>1, <2>2, <2>3 DEF Numbered, DispatcherTypeOK
<1>3. CASE Destroy
  BY <1>3 DEF Destroy, Numbered
<1>4. ASSUME NEW h \in Handlers, Take(h) PROVE Numbered'
  <2> SUFFICES ASSUME alive PROVE Numbered'
    BY <1>4 DEF Numbered, Take
  <2>1. Len(emiters) \in Nat \ {0} /\ Head(emiters) = emiters[1]
    BY <1>4 DEF DispatcherTypeOK, Take
  <2>2. delivered' = delivered + 1
    BY <1>4, <2>1 DEF Take, Numbered
  <2>3. /\ Len(emiters') = Len(emiters) - 1
        /\ \A i \in 1..Len(emiters') : emiters'[i] = emiters[i + 1]
    BY <1>4, <2>1 DEF Take, DispatcherTypeOK
  <2>4. ASSUME NEW i \in 1..Len(emiters') PROVE emiters'[i] = delivered' + i
    <3>1. i + 1 \in 1..Len(emiters)
      BY <2>1, <2>3
    <3> QED
      BY <2>2, <2>3, <3>1 DEF Numbered, DispatcherTypeOK
  <2>5. emitted' = emitted
    BY <1>4 DEF Take
  <2> QED
    BY <2>1, <2>2, <2>3, <2>4, <2>5 DEF Numbered, DispatcherTypeOK
<1>5. ASSUME NEW h \in Handlers, Call(h) \/ Return(h) \/ Finish(h) PROVE Numbered'
  BY <1>1, <1>5 DEF Call, Return, Finish
<1>6. CASE UNCHANGED dispatcherVars
  BY <1>1, <1>6 DEF dispatcherVars
<1> QED
  BY <1>2, <1>3, <1>4, <1>5, <1>6 DEF DispatcherNext, Source

-----------------------------------------------------------------------------
(* The theorems. *)

LEMMA DispatcherInvariance == DispatcherSpec => []DispatcherInv
<1>1. DispatcherInv /\ [DispatcherNext]_dispatcherVars => DispatcherInv'
  BY DispatcherStepTypeOK, StepWired, StepNumbered DEF DispatcherInv
<1> QED
  BY InitDispatcherInv, <1>1, PTL DEF DispatcherSpec

(* The variables keep their types. *)
THEOREM DispatcherTypeCorrect == DispatcherSpec => []DispatcherTypeOK
<1>1. DispatcherInv => DispatcherTypeOK
  BY DEF DispatcherInv
<1> QED
  BY DispatcherInvariance, <1>1, PTL

(* While the dispatcher lives, its signals have one source, which goes only when
   there are none: handlers may emit, and run main loops, as they like. *)
THEOREM WakeupNeverLost == DispatcherSpec => []NoLostWakeup
<1>1. DispatcherInv => NoLostWakeup
  <2> SUFFICES ASSUME DispatcherInv PROVE NoLostWakeup
    OBVIOUS
  <2>1. ASSUME alive PROVE Sources = {handler} \ {Null}
    <3>1. \A h \in Handlers : source[h] # "none" <=> h = handler
      BY <2>1 DEF DispatcherInv, Wired
    <3> QED
      BY <3>1, DispatcherAssumption DEF DispatcherInv, DispatcherTypeOK, Sources, DispatcherAssumption
  <2> QED
    BY <2>1 DEF NoLostWakeup, DispatcherInv, Wired
<1> QED
  BY DispatcherInvariance, <1>1, PTL

(* emission_cb() looks at the dispatcher only while that exists, though handlers
   may destroy it while they are called. *)
THEOREM DestroyedUntouched == DispatcherSpec => []NoUseAfterDestroy
<1>1. DispatcherInv => NoUseAfterDestroy
  BY DispatcherAssumption DEF DispatcherInv, Wired, NoUseAfterDestroy, Sources, DispatcherAssumption
<1> QED
  BY DispatcherInvariance, <1>1, PTL

(* The dispatcher takes only the steps of a mailbox: each signal is received
   once, in the order of emission, and none after the destruction. *)
THEOREM DispatcherIsMailbox == DispatcherSpec => Box!Init /\ [][Box!Next]_Box!vars
<1>1. DispatcherInit => Box!Init
  BY DEF DispatcherInit, Box!Init
<1>2. DispatcherInv /\ [DispatcherNext]_dispatcherVars => [Box!Next]_Box!vars
  <2> SUFFICES ASSUME DispatcherInv, [DispatcherNext]_dispatcherVars PROVE [Box!Next]_Box!vars
    OBVIOUS
  <2>1. CASE Emit
    <3>1. emitted' = delivered + Len(emiters) + 1
      BY <2>1 DEF Emit, DispatcherInv, Numbered
    <3> QED
      BY <2>1, <3>1 DEF Emit, Box!Next, Box!Send
  <2>2. CASE Destroy
    BY <2>2 DEF Destroy, Box!Next, Box!Close
  <2>3. ASSUME NEW h \in Handlers, Take(h) PROVE Box!Next
    <3>1. alive
      BY <2>3, DispatcherAssumption DEF Take, DispatcherInv, Wired, DispatcherAssumption
    <3> QED
      BY <2>3, <3>1 DEF Take, Box!Next, Box!Receive
  <2>4. ASSUME NEW h \in Handlers, Call(h) \/ Return(h) \/ Finish(h)
        PROVE  UNCHANGED Box!vars
    BY <2>4 DEF Call, Return, Finish, Box!vars
  <2>5. CASE UNCHANGED dispatcherVars
    BY <2>5 DEF dispatcherVars, Box!vars
  <2> QED
    BY <2>1, <2>2, <2>3, <2>4, <2>5 DEF DispatcherNext, Source
<1> QED
  BY DispatcherInvariance, <1>1, <1>2, PTL DEF DispatcherSpec

-----------------------------------------------------------------------------
(***************************************************************************)
(* The directory watcher.                                                  *)
(***************************************************************************)

(* Queues as sets. *)
LEMMA RangeEmpty == Range(<<>>) = {}
  BY DEF Range

LEMMA RangeAppend ==
  ASSUME NEW S, NEW s \in Seq(S), NEW e \in S
  PROVE  Append(s, e) \in Seq(S) /\ Range(Append(s, e)) = Range(s) \cup {e}
<1>1. Append(s, e) \in Seq(S)
  BY AppendProperties
<1>2. \A x : x \in Range(Append(s, e)) <=> x \in Range(s) \cup {e}
  <2>1. /\ Len(Append(s, e)) = Len(s) + 1
        /\ \A i \in 1..Len(s) : Append(s, e)[i] = s[i]
        /\ Append(s, e)[Len(s) + 1] = e
    BY AppendProperties
  <2>2. Len(s) \in Nat
    BY LenProperties
  <2>3. Range(Append(s, e)) = {Append(s, e)[i] : i \in 1..Len(s) + 1}
    BY <1>1, <2>1, RangeEquality
  <2>4. Range(s) = {s[i] : i \in 1..Len(s)}
    BY RangeEquality
  <2>5. 1..Len(s) + 1 = 1..Len(s) \cup {Len(s) + 1}
    BY <2>2
  <2> QED
    BY <2>1, <2>3, <2>4, <2>5
<1> QED
  BY <1>1, <1>2

LEMMA RangeHeadTail ==
  ASSUME NEW S, NEW s \in Seq(S), s # <<>>
  PROVE  /\ Head(s) \in S /\ Tail(s) \in Seq(S)
         /\ Range(s) = {Head(s)} \cup Range(Tail(s))
<1>1. Head(s) \in S /\ Tail(s) \in Seq(S)
  BY HeadTailProperties
<1>2. /\ Len(Tail(s)) = Len(s) - 1 /\ Len(s) \in Nat \ {0} /\ Head(s) = s[1]
      /\ \A i \in 1..Len(Tail(s)) : Tail(s)[i] = s[i + 1]
  BY HeadTailProperties, EmptySeq, LenProperties
<1>3. Range(Tail(s)) = {Tail(s)[i] : i \in 1..Len(Tail(s))} /\ Range(s) = {s[i] : i \in 1..Len(s)}
  BY <1>1, RangeEquality
<1>4. \A x \in Range(s) : x \in {Head(s)} \cup Range(Tail(s))
  <2> SUFFICES ASSUME NEW i \in 1..Len(s), s[i] # Head(s)
               PROVE  s[i] \in Range(Tail(s))
    BY <1>3
  <2>1. i - 1 \in 1..Len(Tail(s)) /\ (i - 1) + 1 = i
    BY <1>2
  <2> QED
    BY <1>2, <1>3, <2>1
<1>5. \A x \in {Head(s)} \cup Range(Tail(s)) : x \in Range(s)
  <2>1. \A i \in 1..Len(Tail(s)) : i + 1 \in 1..Len(s)
    BY <1>2
  <2> QED
    BY <1>2, <1>3, <2>1
<1> QED
  BY <1>1, <1>4, <1>5

LEMMA RangeSplit ==
  ASSUME NEW S, NEW s \in Seq(S), NEW n \in 1..Len(s)
  PROVE  /\ SubSeq(s, 1, n) \in Seq(S) /\ SubSeq(s, n + 1, Len(s)) \in Seq(S)
         /\ SubSeq(s, 1, n) # <<>>
         /\ Range(s) = Range(SubSeq(s, 1, n)) \cup Range(SubSeq(s, n + 1, Len(s)))
<1>0. Len(s) \in Nat /\ \A i \in 1..Len(s) : s[i] \in S
  BY LenProperties, ElementOfSeq
<1>1. SubSeq(s, 1, n) \in Seq(S) /\ Len(SubSeq(s, 1, n)) = n
  BY <1>0, SubSeqProperties
<1>2. SubSeq(s, n + 1, Len(s)) \in Seq(S)
  BY <1>0, SubSeqProperties
<1>3. SubSeq(s, 1, n) \o SubSeq(s, n + 1, Len(s)) = SubSeq(s, 1, Len(s))
  BY <1>0, ConcatAdjacentSubSeq
<1>4. SubSeq(s, 1, Len(s)) = s
  BY SubSeqFull
<1>5. SubSeq(s, 1, n) # <<>>
  BY <1>0, <1>1, EmptySeq
<1>6. Range(SubSeq(s, 1, n) \o SubSeq(s, n + 1, Len(s)))
        = Range(SubSeq(s, 1, n)) \cup Range(SubSeq(s, n + 1, Len(s)))
  BY <1>1, <1>2, RangeConcatenation
<1>7. Range(s) = Range(SubSeq(s, 1, n)) \cup Range(SubSeq(s, n + 1, Len(s)))
  BY <1>3, <1>4, <1>6, Zenon
<1> QED
  BY <1>1, <1>2, <1>5, <1>7

-----------------------------------------------------------------------------
(* The thread is there until it has been told to end and inotify has nothing
   more; the watch is that of the settings in force. *)
Watching ==
    /\ connection => watch = None
    /\ watch # None => watch = version
    /\ thread = "none" => watch = None /\ events = <<>> /\ ~connection
    /\ thread # "none" => named = version
    /\ thread \in {"none", "wait"} => batch = <<>>
    /\ thread = "process" => batch # <<>>

(* New settings come when nothing is watched. *)
Changing ==
    /\ watching_directory = None => thread = "none"
    /\ main = "drain" /\ change # "none" => watching_directory = None
    /\ main \in {"idle", "reset"} => change = "none"
    /\ change # "none" => version < MaxChanges

(* Everything on its way is of the directory that is or was watched with the
   settings in force. *)
Current(queue) ==
    \A e \in Range(queue) : e.dir = version /\ (e.file = 0 => version \in left)

Queued == /\ Current(events) /\ Current(batch) /\ Current(new_files)
          /\ \A path \in Range(new_files) : path.named = version
          /\ main = "reset" => version \in left

Holds(queue, a) == \E e \in Range(queue) : e.file = a.file /\ e.dir = a.dir

(* A torrent that has appeared is on its way or loaded. *)
Accounted ==
    \A a \in appeared :
        a.dir \notin left =>
            \/ Holds(events, a) \/ Holds(batch, a) \/ Holds(new_files, a)
            \/ \E l \in loaded : l.file = a.file

WatcherInv == TypeOK /\ Watching /\ Changing /\ Queued /\ Accounted
       /\ LoadedWithOwnSettings /\ NothingMissed

LEMMA InitInv == Init => WatcherInv
<1> SUFFICES ASSUME Init PROVE WatcherInv
  OBVIOUS
<1>0. None \notin Nat /\ MaxChanges \in Nat /\ MaxFiles \in Nat
  BY FsWatcherAssumption DEF FsWatcherAssumption
<1>1. TypeOK
  <2>1. 0 \in Versions /\ 0 \in 0..MaxFiles
    BY <1>0 DEF Versions
  <2>2. <<>> \in Seq(Events) /\ <<>> \in Seq(Paths)
    BY EmptySeq
  <2> QED
    BY <2>1, <2>2 DEF Init, TypeOK
<1>2. Range(<<>>) = {}
  BY RangeEmpty
<1>3. Watching /\ Changing
  BY <1>0 DEF Init, Watching, Changing
<1>4. Queued /\ Accounted /\ LoadedWithOwnSettings /\ NothingMissed
  BY <1>2 DEF Init, Queued, Current, Accounted, LoadedWithOwnSettings, NothingMissed
<1> QED
  BY <1>1, <1>3, <1>4 DEF WatcherInv

LEMMA StepTypeOK == TypeOK /\ Watching /\ Changing /\ [Next]_vars => TypeOK'
<1> SUFFICES ASSUME TypeOK, Watching, Changing, [Next]_vars PROVE TypeOK'
  OBVIOUS
<1>0. /\ MaxChanges \in Nat /\ MaxFiles \in Nat
      /\ Leaves \subseteq {"moved", "deleted"}
  BY FsWatcherAssumption DEF FsWatcherAssumption
<1>1. CASE FileAppears
  <2>1. files' \in Files /\ files' \in 0..MaxFiles /\ watch \in Versions
    BY <1>0, <1>1 DEF FileAppears, TypeOK, Files
  <2>2. [file |-> files', dir |-> watch] \in Events
    BY <2>1 DEF Events
  <2>3. events' \in Seq(Events)
    BY <1>1, <2>2, AppendProperties DEF FileAppears, TypeOK
  <2>4. appeared' \subseteq [file : Files, dir : Versions]
    BY <1>1, <2>1 DEF FileAppears, TypeOK
  <2> QED
    BY <1>1, <2>1, <2>3, <2>4 DEF FileAppears, TypeOK, settings, worker
<1>2. ASSUME NEW leaf \in Leaves, DirectoryLeaves(leaf) PROVE TypeOK'
  <2>1. watch \in Versions
    BY <1>2 DEF DirectoryLeaves, TypeOK
  <2>2. [file |-> 0, dir |-> watch] \in Events
    BY <2>1 DEF Events
  <2>3. events' \in Seq(Events)
    BY <1>2, <2>2, AppendProperties DEF DirectoryLeaves, TypeOK
  <2> QED
    BY <1>2, <2>1, <2>3 DEF DirectoryLeaves, TypeOK, settings, worker
<1>3. ASSUME NEW on \in {"on", "off"}, ChangeSettings(on) PROVE TypeOK'
  BY <1>3 DEF ChangeSettings, Unset, TypeOK, settings, worker, ghosts
<1>4. CASE Wait
  <2>1. CASE events # <<>>
    <3>1. PICK n \in DOMAIN events :
             /\ batch' = SubSeq(events, 1, n)
             /\ events' = SubSeq(events, n + 1, Len(events))
             /\ thread' = "process" /\ UNCHANGED connection
      BY <1>4, <2>1 DEF Wait
    <3>2. n \in 1..Len(events)
      BY <3>1, LenProperties DEF TypeOK
    <3>3. batch' \in Seq(Events) /\ events' \in Seq(Events)
      BY <3>1, <3>2, RangeSplit DEF TypeOK
    <3> QED
      BY <1>4, <3>1, <3>3 DEF Wait, TypeOK, settings, ghosts
  <2>2. CASE events = <<>>
    BY <1>4, <2>2 DEF Wait, TypeOK, settings, ghosts
  <2> QED
    BY <2>1, <2>2
<1>5. CASE Push
  <2>1. batch # <<>>
    BY <1>5 DEF Push, Watching
  <2>2. Head(batch) \in Events /\ batch' \in Seq(Events)
    BY <1>5, <2>1, HeadTailProperties DEF Push, TypeOK
  <2>3. [file |-> Head(batch).file, dir |-> Head(batch).dir, named |-> named] \in Paths
    BY <2>2 DEF TypeOK, Events, Paths
  <2>4. new_files' \in Seq(Paths)
    BY <1>5, <2>3, AppendProperties DEF Push, TypeOK
  <2> QED
    BY <1>5, <2>2, <2>4 DEF Push, TypeOK, settings, kernel, ghosts
<1>6. CASE Signal
  BY <1>6 DEF Signal, TypeOK, settings, kernel, ghosts
<1>7. CASE OnNewFile
  BY <1>7 DEF OnNewFile, TypeOK, settings, kernel, worker, ghosts
<1>8. CASE Load
  <2>1. Head(new_files) \in Paths /\ new_files' \in Seq(Paths)
    BY <1>8, HeadTailProperties DEF Load, TypeOK
  <2>2. [file |-> Head(new_files).file, dir |-> Head(new_files).dir,
         named |-> Head(new_files).named, version |-> version]
           \in [file : Files, dir : Versions, named : Versions, version : Versions]
    BY <1>8, <2>1 DEF Load, TypeOK, Paths
  <2> QED
    BY <1>8, <2>1, <2>2 DEF Load, TypeOK, settings, kernel, worker
<1>9. CASE DirectoryGone
  <2>1. new_files' \in Seq(Paths)
    BY <1>9, HeadTailProperties, EmptySeq DEF DirectoryGone, TypeOK
  <2> QED
    BY <1>9, <2>1 DEF DirectoryGone, Unset, TypeOK, worker, ghosts
<1>10. CASE Reset
  BY <1>10, EmptySeq DEF Reset, TypeOK, kernel, worker, ghosts
<1>11. CASE Join
  BY <1>11 DEF Join, TypeOK, settings, kernel, worker, ghosts
<1>12. CASE Apply
  <2>1. version' \in Versions
    BY <1>0, <1>12 DEF Apply, Changing, TypeOK, Versions
  <2> QED
    BY <1>12, <2>1 DEF Apply, TypeOK, ghosts
<1>13. CASE Handled
  BY <1>13 DEF Handled, TypeOK, settings, kernel, worker, ghosts
<1>14. CASE UNCHANGED vars
  BY <1>14 DEF vars, TypeOK, settings, kernel, worker, ghosts
<1> QED
  BY <1>1, <1>2, <1>3, <1>4, <1>5, <1>6, <1>7, <1>8, <1>9, <1>10, <1>11, <1>12, <1>13,
     <1>14 DEF Next, Thread, Main

LEMMA StepWatching == TypeOK /\ Watching /\ Changing /\ [Next]_vars => Watching' /\ Changing'
<1> SUFFICES ASSUME TypeOK, Watching, Changing, [Next]_vars PROVE Watching' /\ Changing'
  OBVIOUS
<1> USE DEF Watching, Changing
<1>0. None \notin Nat /\ version \in Nat /\ version' \in Nat
  BY StepTypeOK, FsWatcherAssumption DEF TypeOK, Versions, FsWatcherAssumption
<1>1. CASE FileAppears
  BY <1>0, <1>1 DEF FileAppears, settings, worker
<1>2. ASSUME NEW leaf \in Leaves, DirectoryLeaves(leaf) PROVE Watching' /\ Changing'
  BY <1>0, <1>2 DEF DirectoryLeaves, settings, worker
<1>3. ASSUME NEW on \in {"on", "off"}, ChangeSettings(on) PROVE Watching' /\ Changing'
  BY <1>0, <1>3 DEF ChangeSettings, Unset, settings, worker
<1>4. CASE Wait
  <2>1. CASE events # <<>>
    <3>1. PICK n \in DOMAIN events :
             /\ batch' = SubSeq(events, 1, n)
             /\ thread' = "process" /\ UNCHANGED connection
      BY <1>4, <2>1 DEF Wait
    <3>2. n \in 1..Len(events)
      BY <3>1, LenProperties DEF TypeOK
    <3>3. batch' # <<>>
      BY <3>1, <3>2, RangeSplit DEF TypeOK
    <3> QED
      BY <1>4, <3>1, <3>3 DEF Wait, settings
  <2>2. CASE events = <<>>
    BY <1>4, <2>2 DEF Wait, settings
  <2> QED
    BY <2>1, <2>2
<1>5. CASE Push
  BY <1>5 DEF Push, settings, kernel
<1>6. CASE Signal
  BY <1>6 DEF Signal, settings, kernel
<1>7. CASE OnNewFile
  BY <1>7 DEF OnNewFile, settings, kernel, worker
<1>8. CASE Load
  BY <1>8 DEF Load, settings, kernel, worker
<1>9. CASE DirectoryGone
  BY <1>9 DEF DirectoryGone, Unset, worker
<1>10. CASE Reset
  BY <1>10 DEF Reset, kernel, worker
<1>11. CASE Join
  BY <1>11 DEF Join, settings, kernel, worker
<1>12. CASE Apply
  BY <1>0, <1>12 DEF Apply, Drained
<1>13. CASE Handled
  BY <1>13 DEF Handled, Drained, settings, kernel, worker
<1>14. CASE UNCHANGED vars
  BY <1>14 DEF vars, settings, kernel, worker
<1> QED
  BY <1>1, <1>2, <1>3, <1>4, <1>5, <1>6, <1>7, <1>8, <1>9, <1>10, <1>11, <1>12, <1>13,
     <1>14 DEF Next, Thread, Main

LEMMA StepQueued == WatcherInv /\ [Next]_vars => /\ Queued' /\ Accounted'
                                          /\ LoadedWithOwnSettings' /\ NothingMissed'
<1> SUFFICES ASSUME WatcherInv, [Next]_vars
             PROVE  Queued' /\ Accounted' /\ LoadedWithOwnSettings' /\ NothingMissed'
  OBVIOUS
<1> USE DEF WatcherInv, Queued, Current, Holds, Accounted, LoadedWithOwnSettings, NothingMissed
<1>0. version \in Nat /\ None \notin Nat
  BY FsWatcherAssumption DEF TypeOK, Versions, FsWatcherAssumption
<1>1. ASSUME UNCHANGED <<version, events, batch, new_files, appeared, loaded, left>>,
             main = "aborted" => main' = "aborted",
             main' = "reset" => main = "reset"
      PROVE  Queued' /\ Accounted' /\ LoadedWithOwnSettings' /\ NothingMissed'
  BY <1>1
<1>2. CASE FileAppears
  <2>1. watch = version /\ files' \in Files /\ watch \in Versions
    BY <1>2, FsWatcherAssumption DEF FileAppears, TypeOK, Watching, Files, FsWatcherAssumption
  <2>2. Range(events') = Range(events) \cup {[file |-> files', dir |-> watch]}
    <3>1. [file |-> files', dir |-> watch] \in Events
      BY <2>1 DEF Events
    <3>2. events \in Seq(Events) /\ events' = Append(events, [file |-> files', dir |-> watch])
      BY <1>2 DEF FileAppears, TypeOK
    <3> QED
      BY <3>1, <3>2, RangeAppend
  <2>3. files' # 0
    BY <2>1 DEF Files
  <2>4. Queued'
    BY <1>2, <2>1, <2>2, <2>3 DEF FileAppears, settings, worker
  <2>5. Accounted'
    BY <1>2, <2>2 DEF FileAppears, worker
  <2>6. ASSUME NEW a \in appeared', a.dir < version' PROVE a \in appeared
    BY <1>0, <1>2, <2>1, <2>6 DEF FileAppears, settings
  <2> QED
    BY <1>2, <2>4, <2>5, <2>6 DEF FileAppears, settings
<1>3. ASSUME NEW leaf \in Leaves, DirectoryLeaves(leaf)
      PROVE  Queued' /\ Accounted' /\ LoadedWithOwnSettings' /\ NothingMissed'
  <2>1. watch = version /\ watch \in Versions
    BY <1>3 DEF DirectoryLeaves, TypeOK, Watching
  <2>2. Range(events') = Range(events) \cup {[file |-> 0, dir |-> watch]}
    <3>1. [file |-> 0, dir |-> watch] \in Events
      BY <2>1 DEF Events
    <3>2. events \in Seq(Events) /\ events' = Append(events, [file |-> 0, dir |-> watch])
      BY <1>3 DEF DirectoryLeaves, TypeOK
    <3> QED
      BY <3>1, <3>2, RangeAppend
  <2> QED
    BY <1>3, <2>1, <2>2 DEF DirectoryLeaves, settings, worker
<1>4. CASE Wait
  <2>1. CASE events # <<>>
    <3>1. PICK n \in DOMAIN events :
             /\ batch' = SubSeq(events, 1, n)
             /\ events' = SubSeq(events, n + 1, Len(events))
             /\ thread' = "process"
      BY <1>4, <2>1 DEF Wait
    <3>2. n \in 1..Len(events)
      BY <3>1, LenProperties DEF TypeOK
    <3>3. Range(events) = Range(batch') \cup Range(events')
      BY <3>1, <3>2, RangeSplit DEF TypeOK
    <3>4. Range(batch) = {}
      BY <1>4, RangeEmpty DEF Wait, Watching
    <3> QED
      BY <1>4, <3>3, <3>4 DEF Wait, settings, ghosts
  <2>2. CASE events = <<>>
    BY <1>1, <1>4, <2>2 DEF Wait, settings, ghosts
  <2> QED
    BY <2>1, <2>2
<1>5. CASE Push
  <2>1. /\ Head(batch) \in Events /\ Range(batch) = {Head(batch)} \cup Range(batch')
        /\ named = version
    BY <1>5, RangeHeadTail DEF Push, TypeOK, Watching
  <2>2. [file |-> Head(batch).file, dir |-> Head(batch).dir, named |-> named] \in Paths
    BY <2>1 DEF TypeOK, Events, Paths
  <2>3. Range(new_files') = Range(new_files) \cup
           {[file |-> Head(batch).file, dir |-> Head(batch).dir, named |-> named]}
    BY <1>5, <2>2, RangeAppend DEF Push, TypeOK
  <2> QED
    BY <1>5, <2>1, <2>3 DEF Push, settings, kernel, ghosts
<1>6. CASE Signal \/ OnNewFile \/ Join
  BY <1>1, <1>6 DEF Signal, OnNewFile, Join, settings, kernel, worker, ghosts
<1>7. CASE Handled \/ UNCHANGED vars
  BY <1>1, <1>7 DEF Handled, Drained, vars, settings, kernel, worker, ghosts
<1>8. ASSUME NEW on \in {"on", "off"}, ChangeSettings(on)
      PROVE  Queued' /\ Accounted' /\ LoadedWithOwnSettings' /\ NothingMissed'
  <2>1. UNCHANGED <<version, events, batch, new_files, appeared, loaded, left>>
    BY <1>8 DEF ChangeSettings, settings, worker, ghosts
  <2>2. (main = "aborted" => main' = "aborted") /\ (main' = "reset" => main = "reset")
    BY <1>8 DEF ChangeSettings, Unset
  <2> QED
    BY <1>1, <2>1, <2>2
<1>9. CASE Load
  <2> DEFINE path == Head(new_files)
             new == [file |-> path.file, dir |-> path.dir, named |-> path.named,
                     version |-> version]
  <2>1. Range(new_files) = {path} \cup Range(new_files')
    BY <1>9, RangeHeadTail DEF Load, TypeOK
  <2>2. /\ loaded' = loaded \cup {new}
        /\ UNCHANGED <<version, events, batch, appeared, left, main>>
    BY <1>9 DEF Load, settings, kernel, worker
  <2>3. path.dir = version /\ path.named = version
    BY <2>1
  <2>4. new.file = path.file /\ new.named = new.dir /\ new.version = new.dir
    BY <2>3
  <2> HIDE DEF new
  <2>5. \A a \in appeared : (\E l \in loaded : l.file = a.file)
                                => \E l \in loaded' : l.file = a.file
    BY <2>2
  <2>6. \A a \in appeared : path.file = a.file => \E l \in loaded' : l.file = a.file
    BY <2>2, <2>4
  <2>7. Accounted' /\ NothingMissed'
    BY <2>1, <2>2, <2>5, <2>6
  <2>8. Queued' /\ LoadedWithOwnSettings'
    BY <1>9, <2>1, <2>2, <2>4 DEF Load
  <2> QED
    BY <2>7, <2>8
<1>10. CASE DirectoryGone \/ Reset
  <2>1. /\ version' = version
        /\ UNCHANGED <<events, batch, appeared, loaded, left>>
        /\ main' # "aborted" => main # "aborted"
    BY <1>10 DEF DirectoryGone, Unset, Reset, kernel, worker, ghosts
  <2>2. CASE new_files' = <<>>
    <3>1. version \in left
      <4>1. CASE DirectoryGone
        <5>1. Head(new_files) \in Range(new_files)
          BY <4>1, RangeHeadTail DEF DirectoryGone, TypeOK
        <5> QED
          BY <4>1, <5>1 DEF DirectoryGone
      <4>2. CASE Reset
        BY <4>2 DEF Reset
      <4> QED
        BY <1>10, <4>1, <4>2
    <3>2. Range(new_files') = {}
      BY <2>2, RangeEmpty
    <3> QED
      BY <2>1, <3>1, <3>2
  <2>3. CASE DirectoryGone /\ new_files' = Tail(new_files)
    <3>1. Range(new_files) = {Head(new_files)} \cup Range(new_files')
      BY <2>3, RangeHeadTail DEF DirectoryGone, TypeOK
    <3>2. Head(new_files).file = 0 /\ version \in left
      BY <2>3, <3>1 DEF DirectoryGone
    <3>3. \A a \in appeared : a.file # 0
      BY DEF TypeOK, Files
    <3> QED
      BY <2>1, <3>1, <3>2, <3>3
  <2> QED
    BY <1>10, <2>2, <2>3 DEF DirectoryGone, Reset
<1>11. CASE Apply
  <2>1. thread = "none" /\ events = <<>> /\ batch = <<>> /\ new_files = <<>>
    BY <1>11 DEF Apply, Drained, Watching, Changing
  <2>2. UNCHANGED <<events, batch, new_files, appeared, loaded, left>>
    BY <1>11 DEF Apply, ghosts
  <2>3. Range(events) = {} /\ Range(batch) = {} /\ Range(new_files) = {}
    BY <2>1, RangeEmpty
  <2>4. \A a \in appeared : a.dir \notin left => \E l \in loaded : l.file = a.file
    BY <2>3
  <2>5. main' = "idle"
    BY <1>11 DEF Apply
  <2> QED
    BY <2>2, <2>3, <2>4, <2>5
<1> QED
  BY <1>2, <1>3, <1>4, <1>5, <1>6, <1>7, <1>8, <1>9, <1>10, <1>11 DEF Next, Thread, Main
-----------------------------------------------------------------------------
(* The theorems. *)

LEMMA Invariance == Spec => []WatcherInv
<1>1. WatcherInv /\ [Next]_vars => WatcherInv'
  BY StepTypeOK, StepWatching, StepQueued DEF WatcherInv
<1> QED
  BY InitInv, <1>1, PTL DEF Spec

(* The variables keep their types. *)
THEOREM TypeCorrect == Spec => []TypeOK
<1>1. WatcherInv => TypeOK
  BY DEF WatcherInv
<1> QED
  BY Invariance, <1>1, PTL

(* Torrents are loaded with the settings that told to watch their directory,
   however late their events are read and their signals handled. *)
THEOREM OwnSettings == Spec => []LoadedWithOwnSettings
<1>1. WatcherInv => LoadedWithOwnSettings
  BY DEF WatcherInv
<1> QED
  BY Invariance, <1>1, PTL

(* New settings leave nothing behind of what appeared under the old ones. *)
THEOREM NoTorrentMissed == Spec => []NothingMissed
<1>1. WatcherInv => NothingMissed
  BY DEF WatcherInv
<1> QED
  BY Invariance, <1>1, PTL
=============================================================================
