----------------------------- MODULE MCFeedback -----------------------------
(***************************************************************************)
(* Instances of Feedback for TLC: two threads, windows of a few            *)
(* observations, and thresholds that such windows can meet.  And instances *)
(* of what is said of the choice of the mode: windows of up to four        *)
(* observations.                                                           *)
(***************************************************************************)
EXTENDS Feedback, TLC

CONSTANTS t1, t2

MCThreads == {t1, t2}
MCSymmetry == Permutations(MCThreads)

MCLatencies == {0, 2}
MCZeroLatency == {0}

\* The two modes that the emergency gate tells apart.
MCModes == {"normal", "emergency"}
MCNormal == {"normal"}

MCObs == {o \in Obs : o.age = 0}
MCWindows == UNION {[1 .. n -> MCObs] : n \in 0 .. 4}

ASSUME MCModeFor ==
    /\ \A v, w \in MCWindows : WorseIsStricter(v, w)
    /\ \A w \in MCWindows, o \in MCObs : GoodRunHelps(w, o)
=============================================================================
