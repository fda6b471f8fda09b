----------------------------- MODULE InjectPath -----------------------------
(***************************************************************************)
(* Who types into the prompt line of the session (src/inject_lock.rs,      *)
(* src/inject_dispatch.rs, the inject functions of src/tmux.rs).  Injectors *)
(* of several processes take one lock around their keystrokes; it is given *)
(* up on after a while and freed by a crash.  The operator types without.  *)
(* A text is typed in two parts.                                           *)
(***************************************************************************)
EXTENDS Naturals, Sequences, SequencesExt

CONSTANTS
    Cli,      \* processes that run `claude-watch inject`
    Daemon,   \* the injector of the daemon
    MaxLine   \* bounds what the operator and the injectors pile up on the line

Injectors == Cli \cup {Daemon}
Typist == "operator"
Nobody == "nobody"

ASSUME InjectorsAssumption ==
    MaxLine \in Nat /\ Typist \notin Injectors /\ Nobody \notin Injectors \cup {Typist}

VARIABLES
    line,     \* the prompt line: the writers of its parts, in order
    lock,     \* who holds the inject lock
    pc,       \* what an injector does next
    mode,     \* "plain" (inject_and_verify), "typed" (the same, no submit),
              \* "queued" (inject_text_queued), "cancel" (inject_text)
    excused,  \* history: injectors that may leave text: crashed, "typed", or the
              \* operator typed next to them
    forced,   \* history: an injector gave up on the lock
    mixed,    \* history: an injector submitted another injector's text
    bitten    \* history: a retraction removed what the operator had typed

ipVars == <<line, lock, pc, mode, excused, forced, mixed, bitten>>

Modes(w) == IF w \in Cli THEN {"plain", "typed", "cancel"} ELSE {"queued", "cancel"}

\* operator_typing_in_progress: text of anybody on the line.
LineBusyUnread == FALSE
LineBusy == line # <<>>

\* typed_line_is_exclusively_payload: nothing but what w has typed.
ExclusiveEnd(w) == line # <<>> /\ line[Len(line)] = w
Exclusive(w) == Len(line) \in 1..2 /\ \A i \in DOMAIN line : line[i] = w

\* retract_typed_payload: as many characters as the payload has, before the caret.
RetractedOnce(w) == IF line = <<>> THEN <<>> ELSE SubSeq(line, 1, Len(line) - 1)
Retracted(w) == IF Len(line) < 2 THEN <<>> ELSE SubSeq(line, 1, Len(line) - 2)

Free(w) == IF lock = w THEN Nobody ELSE lock

-----------------------------------------------------------------------------
Begin(w, m) ==
    /\ pc[w] = "idle"
    /\ pc' = [pc EXCEPT ![w] = "acquire"] /\ mode' = [mode EXCEPT ![w] = m]
    /\ excused' = IF \E i \in DOMAIN line : line[i] = w THEN excused ELSE excused \ {w}
    /\ UNCHANGED <<line, lock, forced, mixed, bitten>>

\* InjectLock::acquire; after the timeout the guard is inert.
Acquire(w) ==
    /\ pc[w] = "acquire"
    /\ pc' = [pc EXCEPT ![w] = "look"]
    /\ \/ lock = Nobody /\ lock' = w /\ UNCHANGED forced
       \/ lock # Nobody /\ forced' = TRUE /\ UNCHANGED lock
    /\ UNCHANGED <<line, mode, excused, mixed, bitten>>

\* The daemon's routes leave a line alone that somebody is typing on, and
\* inject_text wipes the line; the default route of the CLI only waits a little.
Look(w) ==
    /\ pc[w] = "look"
    /\ IF mode[w] \in {"queued", "cancel"} /\ LineBusy
       THEN pc' = [pc EXCEPT ![w] = "idle"] /\ lock' = Free(w) /\ UNCHANGED line
       ELSE /\ pc' = [pc EXCEPT ![w] = "first"]
            /\ line' = IF mode[w] = "cancel" THEN <<>> ELSE line
            /\ UNCHANGED lock
    /\ UNCHANGED <<mode, excused, forced, mixed, bitten>>

TypeText(w) ==
    /\ pc[w] \in {"first", "second"} /\ Len(line) < MaxLine
    /\ line' = Append(line, w)
    /\ pc' = [pc EXCEPT ![w] = IF @ = "first" THEN "second"
                               ELSE IF mode[w] = "plain" THEN "judge"
                               ELSE IF mode[w] = "typed" THEN "leave" ELSE "submit"]
    /\ UNCHANGED <<lock, mode, excused, forced, mixed, bitten>>

\* wait_for_clean_payload
Judge(w) ==
    /\ pc[w] = "judge"
    /\ pc' = [pc EXCEPT ![w] = IF Exclusive(w) THEN "submit" ELSE "retract"]
    /\ UNCHANGED <<line, lock, mode, excused, forced, mixed, bitten>>

Retract(w) ==
    /\ pc[w] = "retract"
    /\ line' = Retracted(w)
    /\ bitten' = (bitten \/ \E i \in DOMAIN line : i > Len(line') /\ line[i] = Typist)
    /\ pc' = [pc EXCEPT ![w] = "idle"] /\ lock' = Free(w)
    /\ UNCHANGED <<mode, excused, forced, mixed>>

Submit(w) ==
    /\ pc[w] = "submit"
    /\ line' = <<>>
    /\ mixed' = (mixed \/ \E i \in DOMAIN line : line[i] \in Injectors \ {w})
    /\ pc' = [pc EXCEPT ![w] = "idle"] /\ lock' = Free(w)
    /\ UNCHANGED <<mode, excused, forced, bitten>>

Leave(w) ==
    /\ pc[w] = "leave"
    /\ pc' = [pc EXCEPT ![w] = "idle"] /\ lock' = Free(w)
    /\ excused' = excused \cup {w}
    /\ UNCHANGED <<line, mode, forced, mixed, bitten>>

\* The kernel frees the lock of a process that died.
InjectorDies(w) ==
    /\ pc[w] # "idle"
    /\ pc' = [pc EXCEPT ![w] = "idle"] /\ lock' = Free(w)
    /\ excused' = excused \cup {w}
    /\ UNCHANGED <<line, mode, forced, mixed, bitten>>

OperatorTypes ==
    /\ Len(line) < MaxLine
    /\ line' = Append(line, Typist)
    /\ excused' = excused \cup {w \in Injectors : pc[w] \in {"second", "judge", "retract", "submit"}}
    /\ UNCHANGED <<lock, pc, mode, forced, mixed, bitten>>

OperatorSubmits ==
    /\ line # <<>> /\ line' = <<>>
    /\ UNCHANGED <<lock, pc, mode, excused, forced, mixed, bitten>>

IpInit ==
    /\ line = <<>> /\ lock = Nobody
    /\ pc = [w \in Injectors |-> "idle"] /\ mode = [w \in Injectors |-> "cancel"]
    /\ excused = {} /\ forced = FALSE /\ mixed = FALSE /\ bitten = FALSE

IpNext ==
    \/ \E w \in Injectors :
        \/ \E m \in Modes(w) : Begin(w, m)
        \/ Acquire(w) \/ Look(w) \/ TypeText(w) \/ Judge(w) \/ Retract(w) \/ Submit(w)
        \/ Leave(w) \/ InjectorDies(w)
    \/ OperatorTypes
    \/ OperatorSubmits

IpSpec == IpInit /\ [][IpNext]_ipVars

-----------------------------------------------------------------------------
\* The types of the inject path's state.
IpTypeOK ==
    /\ line \in Seq(Injectors \cup {Typist}) /\ Len(line) <= MaxLine
    /\ lock \in Injectors \cup {Nobody}
    /\ pc \in [Injectors -> {"idle", "acquire", "look", "first", "second", "judge",
                             "retract", "submit", "leave"}]
    /\ mode \in [Injectors -> {"plain", "typed", "queued", "cancel"}]
    /\ excused \subseteq Injectors

\* "the theme payload spliced into the middle of the word": as long as nobody gave
\* up on the lock, no injector submits a text that another injector typed, not
\* even one that was left behind by a crash or a dirty line.
NoSplice == forced \/ ~mixed

\* An injector that is through has left nothing on the line, unless it died, was
\* told not to submit, or the operator typed next to it.
LineLeftClean ==
    forced \/ \A i \in DOMAIN line :
        line[i] \in Injectors /\ pc[line[i]] = "idle" => line[i] \in excused

\* The prompt line belongs to one injector at a time, and to nobody after it.
LineKept == IpTypeOK /\ NoSplice /\ LineLeftClean

\* "this retracts our payload and nothing else" (retract_typed_payload)
RetractsOwnOnly == ~bitten
=============================================================================
