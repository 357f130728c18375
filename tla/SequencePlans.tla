--------------------------- MODULE SequencePlans ---------------------------
(***************************************************************************)
(* The way of a command plan from the operator's desk into a slot of the   *)
(* vehicle: the parser of xtce_sim/sequences.py, the tools `seq check` and *)
(* `seq shift` of the ground, and the LOAD of xtce_sim/seqservice.py that  *)
(* reads the plan out of the store.                                        *)
(*                                                                         *)
(* A file is a sequence of lines or it is not text.  A line is the         *)
(* sequence of its words once its comment is gone: a time, a command, then *)
(* <<key, value>> for every KEY=VALUE and <<word>> for anything else.  One *)
(* unit of time is half a second, which is the finest the tools round to.  *)
(***************************************************************************)
EXTENDS Integers, SequencesExt

CONSTANTS
    Signatures,   \* per command and argument, the values that encode (and Omitted)
    Drafts,       \* the files operators write: [name, text]
    JailRefuses,  \* the names the store takes no file under
    SeqIds,       \* the SeqId arguments: [number], [label]; none is [number |-> 1]
    SlotLabels,   \* the enumeration of the definition for SeqId
    Delays,       \* the --start-in of the operator
    MaxDrafts,    \* bound: how often operators write a file
    MaxTime       \* bound of the clock

\* A file has lines, and a line that is not blank begins with a word that may
\* be a time.
IsLine(words) ==
    /\ Len(words) \in Nat /\ words = [i \in 1..Len(words) |-> words[i]]
    /\ words # <<>> => words[1].at \in Int /\ words[1].zone \in Int

IsFile(file) ==
    LET lines == file.text.lines IN
    /\ file = [name |-> file.name, text |-> [utf8 |-> file.text.utf8, lines |-> lines]]
    /\ Len(lines) \in Nat /\ lines = [n \in 1..Len(lines) |-> lines[n]]
    /\ \A n \in 1..Len(lines) : IsLine(lines[n])

ASSUME PlansAssumption == (\A file \in Drafts : IsFile(file)) /\ Delays \subseteq Int

Slots == {"ats", "rts"}
Omitted == "(omitted)"

VARIABLES
    desk,     \* the operator's file
    drafts,   \* how often it was written
    shelf,    \* FileStore: the text under each name of the vehicle's store
    slot,     \* Sequencer._slots, as far as LOAD sees them
    source,   \* history: the file a slot's plan was read from, as it was then
    now       \* UTC

planVars == <<desk, drafts, shelf, slot, source, now>>

-----------------------------------------------------------------------------
\* The time of a word, in a sequence of at most one: a word is a timestamp
\* in UTC, with a zone or with none, a bare date, a delay, or anything else.
AtsTime(word) ==
    CASE word.form \in {"utc", "naked"} -> <<word.at>>
      [] word.form = "zoned" -> <<word.at - word.zone>>
      [] OTHER -> <<>>

RtsDelay(word) == IF word.form = "delay" THEN <<word.at>> ELSE <<>>

TimeOf(kind, word) == IF kind = "ats" THEN AtsTime(word) ELSE RtsDelay(word)

ArgumentsSound(words) ==
    /\ \A i \in 3..Len(words) : Len(words[i]) = 2 /\ words[i][1] # ""
    /\ \A i, j \in 3..Len(words) : i < j => words[i][1] # words[j][1]

IsEntry(kind, words) ==
    Len(words) >= 2 /\ TimeOf(kind, words[1]) # <<>> /\ ArgumentsSound(words)

EntryOf(kind, words, n) ==
    [time |-> TimeOf(kind, words[1])[1], command |-> words[2], line |-> n,
     args |-> {words[i] : i \in 3..Len(words)}]

\* The entries of a file, each with the number of its line.
EntriesOf(kind, lines) ==
    {EntryOf(kind, lines[n], n) : n \in {m \in DOMAIN lines : IsEntry(kind, lines[m])}}

\* codec.encode_command takes the entry.
Encodes(e) ==
    /\ e.command \in DOMAIN Signatures
    /\ LET params == Signatures[e.command] IN
       /\ \A a \in e.args : a[1] \in DOMAIN params /\ a[2] \in params[a[1]]
       /\ \A p \in DOMAIN params : p \in {a[1] : a \in e.args} \/ Omitted \in params[p]

\* A file has no problem: every line that is not blank is an entry, there is
\* one at least, and with a definition each of them encodes.
IsSound(kind, lines, defined) ==
    /\ EntriesOf(kind, lines) # {}
    /\ \A n \in DOMAIN lines : lines[n] = <<>> \/ IsEntry(kind, lines[n])
    /\ defined => \A e \in EntriesOf(kind, lines) : Encodes(e)

\* The entries by time; those of one time stay in the order of the file.
Precedes(d, e) == d.time < e.time \/ (d.time = e.time /\ d.line <= e.line)
Rank(entries, e) == Cardinality({d \in entries : Precedes(d, e)})
ByTime(entries) ==
    [r \in 1..Cardinality(entries) |-> CHOOSE e \in entries : Rank(entries, e) = r]

\* The plan of a file, in a sequence of at most one: a file with any problem
\* is rejected whole.
Parse(kind, lines, defined) ==
    IF IsSound(kind, lines, defined) THEN <<ByTime(EntriesOf(kind, lines))>> ELSE <<>>

KindFor(name) ==
    CASE name.ext \in {"ats", "ATS"} -> "ats"
      [] name.ext \in {"rts", "RTS"} -> "rts"
      [] OTHER -> "none"

-----------------------------------------------------------------------------
\* The tools of the ground.
GroundParse(file, defined) ==
    IF file.text.utf8 /\ KindFor(file.name) # "none"
    THEN Parse(KindFor(file.name), file.text.lines, defined)
    ELSE <<>>

Check(file) == GroundParse(file, TRUE) # <<>>

\* Half seconds to the nearest second; a tie goes to the even one.
Rounded(t) ==
    IF t % 2 = 0 THEN t ELSE IF ((t - 1) \div 2) % 2 = 0 THEN t - 1 ELSE t + 1

\* Mutant of Moved: the reading is moved and the zone forgotten.
MovedAsRead(word, delta) == [form |-> "utc", at |-> word.at + delta, zone |-> 0]

Moved(word, delta) == [form |-> "utc", at |-> AtsTime(word)[1] + delta, zone |-> 0]

ShiftAts(lines, delta) ==
    [n \in 1..Len(lines) |->
        IF lines[n] = <<>> THEN lines[n] ELSE [lines[n] EXCEPT ![1] = Moved(@, delta)]]

\* `seq shift --write`: the file is replaced whole or not at all.
Shift(delay) ==
    LET plan == GroundParse(desk, FALSE) IN
    /\ KindFor(desk.name) = "ats" /\ plan # <<>>
    /\ desk' = [desk EXCEPT !.text.lines =
                   ShiftAts(@, Rounded(now + delay - plan[1][1].time))]
    /\ UNCHANGED <<drafts, shelf, slot, source, now>>

Writes(file) ==
    /\ drafts < MaxDrafts
    /\ drafts' = drafts + 1 /\ desk' = file
    /\ UNCHANGED <<shelf, slot, source, now>>

\* The file service stores an upload, and removes a file, at one blow.
Uploaded ==
    /\ desk.name \notin JailRefuses
    /\ shelf' = [shelf EXCEPT ![desk.name] = <<desk.text>>]
    /\ UNCHANGED <<desk, drafts, slot, source, now>>

Deleted(name) ==
    /\ shelf[name] # <<>>
    /\ shelf' = [shelf EXCEPT ![name] = <<>>]
    /\ UNCHANGED <<desk, drafts, slot, source, now>>

-----------------------------------------------------------------------------
\* The commands of the vehicle.
\* The number of a SeqId: 1 is the one slot that a vehicle has, and a
\* definition without the argument means that one too.
SeqIdWireValue(id) ==
    IF "label" \in DOMAIN id
    THEN IF id.label \in DOMAIN SlotLabels THEN SlotLabels[id.label] ELSE 0
    ELSE id.number

SeqIdAccepted(id) == SeqIdWireValue(id) = 1

\* The plan that LOAD reads, in a sequence of at most one.
ReadPlan(kind, name) ==
    IF /\ KindFor(name) \in {kind, "none"}
       /\ name \notin JailRefuses /\ shelf[name] # <<>>
       /\ shelf[name][1].utf8
    THEN Parse(kind, shelf[name][1].lines, TRUE)
    ELSE <<>>

Empty == [state |-> "IDLE", plan |-> <<>>]

\* A LOAD that fails lands the slot in ERROR; one against a slot that is
\* running is refused before anything of the file counts.
LoadPlan(kind, name) ==
    LET plan == ReadPlan(kind, name) IN
    /\ slot[kind].state # "RUNNING"
    /\ slot' = [slot EXCEPT ![kind] =
           IF plan = <<>> THEN [state |-> "ERROR", plan |-> <<>>]
           ELSE [state |-> "LOADED", plan |-> plan[1]]]
    /\ source' = [source EXCEPT ![kind] =
           IF plan = <<>> THEN <<>> ELSE <<[name |-> name, text |-> shelf[name][1]]>>]

\* Mutant of StartPlan: the file is read again to re-base the plan.
StartPlanFromFile(kind) ==
    /\ slot[kind].state \in {"LOADED", "COMPLETE"}
    /\ source[kind] # <<>> /\ ReadPlan(kind, source[kind][1].name) # <<>>
    /\ slot' = [slot EXCEPT ![kind] =
           [state |-> "RUNNING", plan |-> ReadPlan(kind, source[kind][1].name)[1]]]
    /\ UNCHANGED source

\* What START runs is what LOAD put there; an ATS must have an entry ahead.
StartPlan(kind) ==
    /\ slot[kind].state \in {"LOADED", "COMPLETE"}
    /\ kind = "ats" => \E e \in Range(slot[kind].plan) : e.time >= now
    /\ slot' = [slot EXCEPT ![kind].state = "RUNNING"]
    /\ UNCHANGED source

StopPlan(kind) ==
    /\ slot[kind].state = "RUNNING"
    /\ slot' = [slot EXCEPT ![kind].state = "LOADED"]
    /\ UNCHANGED source

AbortPlan(kind) ==
    /\ slot' = [slot EXCEPT ![kind] = Empty]
    /\ source' = [source EXCEPT ![kind] = <<>>]

SequenceCommanded(kind, id) ==
    /\ SeqIdAccepted(id)
    /\ \/ \E name \in DOMAIN shelf \union JailRefuses : LoadPlan(kind, name)
       \/ StartPlan(kind) \/ StopPlan(kind) \/ AbortPlan(kind)
    /\ UNCHANGED <<desk, drafts, shelf, now>>

\* The last entry was fired (Sequencer.TickEnd).
PlanCompletes(kind) ==
    /\ slot[kind].state = "RUNNING"
    /\ slot' = [slot EXCEPT ![kind].state = "COMPLETE"]
    /\ UNCHANGED <<desk, drafts, shelf, source, now>>

TimePasses ==
    /\ now < MaxTime /\ now' = now + 1
    /\ UNCHANGED <<desk, drafts, shelf, slot, source>>

-----------------------------------------------------------------------------
PlansInit ==
    /\ desk \in Drafts /\ drafts = 1
    /\ shelf = [n \in {f.name : f \in Drafts} \ JailRefuses |-> <<>>]
    /\ slot = [k \in Slots |-> Empty] /\ source = [k \in Slots |-> <<>>]
    /\ now = 0

PlansNext ==
    \/ \E file \in Drafts : Writes(file)
    \/ \E delay \in Delays : Shift(delay)
    \/ Uploaded
    \/ \E name \in DOMAIN shelf : Deleted(name)
    \/ \E kind \in Slots, id \in SeqIds : SequenceCommanded(kind, id)
    \/ \E kind \in Slots : PlanCompletes(kind)
    \/ TimePasses

PlansSpec == PlansInit /\ [][PlansNext]_planVars

-----------------------------------------------------------------------------
(***************************************************************************)
(* The plan in a slot is the whole file that LOAD read, whatever became of *)
(* the file since: one entry for every line that is not blank, in the      *)
(* order of the times and, at one time, of the lines, each one a command   *)
(* that can be sent.  And if the ground has an opinion about a file of     *)
(* this name, `seq check` had passed it.                                   *)
(***************************************************************************)
PlanIsTheWholeFile ==
    \A k \in Slots : slot[k].state \in {"LOADED", "RUNNING", "COMPLETE"} =>
        LET plan == slot[k].plan
            lines == source[k][1].text.lines
        IN  /\ {plan[i].line : i \in DOMAIN plan} = {n \in DOMAIN lines : lines[n] # <<>>}
            /\ \A i \in DOMAIN plan :
                   /\ plan[i] = EntryOf(k, lines[plan[i].line], plan[i].line)
                   /\ Encodes(plan[i])
            /\ \A i, j \in DOMAIN plan : i < j =>
                   \/ plan[i].time < plan[j].time
                   \/ plan[i].time = plan[j].time /\ plan[i].line < plan[j].line
            /\ KindFor(source[k][1].name) = k => Check(source[k][1])

(***************************************************************************)
(* `seq shift` moves the plan and changes nothing else of it: the commands *)
(* in their order, every distance in time, and its first one within half a *)
(* second of what the operator asked for, in whatever zone it was written. *)
(***************************************************************************)
ShiftKeepsThePlan ==
    [][\A delay \in Delays : Shift(delay) =>
          LET old == GroundParse(desk, FALSE)[1]
              new == GroundParse(desk', FALSE)[1]
          IN  /\ DOMAIN new = DOMAIN old
              /\ \A i \in DOMAIN old :
                     /\ new[i].command = old[i].command /\ new[i].args = old[i].args
                     /\ new[i].line = old[i].line
                     /\ new[i].time - new[1].time = old[i].time - old[1].time
              /\ new[1].time - (now + delay) \in -1..1
      ]_desk
=============================================================================
