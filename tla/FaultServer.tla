------------------------------- MODULE FaultServer -------------------------------
(***************************************************************************)
(* scripts/gui_fault_server.py: the simulator with faults that it injects  *)
(* into itself, at times given on the command line.  One signal is          *)
(* followed; what happens to the others is the same.  Its own value and     *)
(* those that the scenario computes are told apart, nothing more.           *)
(***************************************************************************)
EXTENDS Reports

(* Window.open_at. *)
OpenAt(w, t) == w.start <= t /\ t < w.end

(* Mutant of WindowOK: a window may be open from the start. *)
WindowOKFromStart(w) == 0 <= w.start /\ w.start < w.end

(* parse_window. *)
WindowOK(w) == 0 < w.start /\ w.start < w.end

Parts == {"state", "vehicle", "dtcs"}

(* nonfinite_option. *)
NonfiniteOption(o) == o.path # Nobody /\ WindowOK(o.window)

(* Mutant of Apart: windows are not compared. *)
Overlapping(options) == TRUE

(* main: the windows of one path do not overlap. *)
Apart(options) ==
    \A i, j \in DOMAIN options :
        i < j /\ options[i].path = options[j].path =>
            \/ options[i].window.end <= options[j].window.start
            \/ options[j].window.end <= options[i].window.start

(* main: a path is a signal of this vehicle. *)
KnownPaths(kind, options) == \A o \in Range(options) : o.path \in Signals(kind)

(* state_fault_option. *)
StateFaultOK(option) == WindowOK(option.window) /\ option.part \in Parts
-----------------------------------------------------------------------------
(* The signal's value, and the one that is kept to put it back. *)
NoneSaved == << >>
Untouched(value) == [value |-> value, saved |-> NoneSaved]

Open(f) == [value |-> NotFinite, saved |-> IF f.saved = NoneSaved THEN <<f.value>> ELSE f.saved]

(* Mutant of Close: the value is put back whatever the scenario has written. *)
CloseRestores(f) == Untouched(f.saved[1])

(* A value that the scenario has just written stays. *)
Close(f) == Untouched(IF f.value = NotFinite THEN f.saved[1] ELSE f.value)

(* Harness._wrap_apply, for one window of the path. *)
AfterWindow(f, w, t) ==
    CASE OpenAt(w, t) -> Open(f)
      [] ~OpenAt(w, t) /\ f.saved # NoneSaved /\ t >= w.end -> Close(f)
      [] OTHER -> f

(* ScenarioRunner.apply at t, wrapped: the scenario writes the signals it drives, *)
(* then the windows are gone through in the order of the command line.            *)
AfterApply(f, windows, t, driven) ==
    FoldLeft(LAMBDA g, w : AfterWindow(g, w, t), IF driven THEN [f EXCEPT !.value = <<t>>] ELSE f, windows)

AfterApplies(own, windows, times, driven) ==
    FoldLeft(LAMBDA f, t : AfterApply(f, windows, t, driven), Untouched(own), times)
-----------------------------------------------------------------------------
(* Mutant of Earlier: at the same time, a window opens before the last one closes. *)
EarlierOpens(a, b) == a.at < b.at \/ (a.at = b.at /\ a.invalid)

(* How sorted orders the events of a path: at the same time, False comes first. *)
Earlier(a, b) == a.at < b.at \/ (a.at = b.at /\ ~a.invalid)

(* Harness.no_scenario_timers, its events. *)
TimerEvents(windows) ==
    SetToSortSeq({[at |-> w.start, invalid |-> TRUE] : w \in Range(windows)}
                 \cup {[at |-> w.end, invalid |-> FALSE] : w \in Range(windows)}, Earlier)

(* Each sets the signal, or puts it back. *)
AfterTimer(f, event) ==
    IF event.invalid THEN [value |-> NotFinite, saved |-> <<f.value>>]
    ELSE IF f.saved # NoneSaved THEN Untouched(f.saved[1]) ELSE f

(* What the timers have made of the signal when those that are due have fired. *)
AfterTimers(own, windows, t) ==
    FoldLeft(AfterTimer, Untouched(own), SelectSeq(TimerEvents(windows), LAMBDA e : e.at <= t))
-----------------------------------------------------------------------------
(* Harness._faulty: a fault of one part raises in the whole snapshot too, which *)
(* calls both parts; a fault of the whole leaves the parts' own answers alone.  *)
SnapshotFails(what, faults, t) ==
    \E f \in Range(faults) : OpenAt(f.window, t) /\ (what = "state" \/ f.part = what)

(* ApiServer.__init__: the simulator does not start if its first state, of the  *)
(* time 0, cannot be encoded.                                                   *)
StartRefused(faults) == SnapshotFails("state", faults, 0)

(* _status, _vehicle, _dtcs: /status answers whatever else fails, the others fail *)
(* with their own snapshot.                                                        *)
AnswerFails(path, faults, t) == path # "status" /\ SnapshotFails(path, faults, t)
=============================================================================
