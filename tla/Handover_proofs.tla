--------------------------- MODULE Handover_proofs ---------------------------
(***************************************************************************)
(* Overlapping presses of Ctrl+Shift+Esc open one window between them, for *)
(* any number of processes and any patience (instance.rs).                 *)
(*                                                                         *)
(* OnePressOneWindow needs one fact besides the types: while nothing has   *)
(* gone wrong no window is closing, so none refuses a stand-in.            *)
(***************************************************************************)
EXTENDS Handover, TLAPS

NoneCloses == calm => \A w \in Procs : ~closing[w]

IInv == TypeOK /\ NoneCloses /\ OnePressOneWindow

\* The invariant holds at the beginning.
LEMMA InitInv == Init => IInv
<1> SUFFICES ASSUME Init PROVE IInv OBVIOUS
<1> USE ProcsAssumption, PatienceAssumption
<1>1. TypeOK BY DEF Init, TypeOK, Places, Waits, Windowed
<1>2. NoneCloses /\ OnePressOneWindow
    BY DEF Init, NoneCloses, OnePressOneWindow, Windowed
<1> QED BY <1>1, <1>2 DEF IInv

-----------------------------------------------------------------------------
(* Types *)

\* A step of the program, or of the desktop around it, keeps the types.
LEMMA TypeStep ==
    ASSUME TypeOK, [Next]_vars
    PROVE  TypeOK'
<1> USE ProcsAssumption, PatienceAssumption DEF TypeOK, Places, Waits, Windowed
<1>1. CASE UNCHANGED vars BY <1>1 DEF vars
<1>2. ASSUME NEW p \in Procs, Launch(p) \/ Press(p)
      PROVE  TypeOK'
    BY <1>2 DEF Launch, Press
<1>3. ASSUME NEW p \in Procs, Found(p) \/ Send(p) \/ TimeOut(p)
      PROVE  TypeOK'
    <2>1. CASE Found(p)
        <3>1. PICK w \in Procs : asked' = [asked EXCEPT ![p] = w]
            BY <2>1 DEF Found, Windows
        <3> QED BY <2>1, <3>1 DEF Found
    <2>2. CASE Send(p)
        <3>1. inbox' \in [Procs -> SUBSET Procs]
            <4>1. CASE UNCHANGED inbox BY <4>1
            <4>2. CASE inbox' = [inbox EXCEPT ![asked[p]] = @ \cup {p}] BY <4>2
            <4> QED BY <2>2, <4>1, <4>2 DEF Send
        <3>2. pc' \in [Procs -> Places] /\ calm' \in BOOLEAN BY <2>2 DEF Send
        <3> QED BY <2>2, <3>1, <3>2 DEF Send
    <2>3. CASE TimeOut(p) BY <2>3 DEF TimeOut
    <2> QED BY <1>3, <2>1, <2>2, <2>3
<1>4. ASSUME NEW p \in Procs, NotFound(p)
      PROVE  TypeOK'
    <2>1. looks' \in [Procs -> 0 .. Patience]
        <3>1. CASE looks[p] > 0 BY <1>4, <3>1 DEF NotFound
        <3>2. CASE ~(looks[p] > 0) BY <1>4, <3>2 DEF NotFound
        <3> QED BY <3>1, <3>2
    <2>2. pc' \in [Procs -> Places] /\ calm' \in BOOLEAN BY <1>4 DEF NotFound
    <2> QED BY <1>4, <2>1, <2>2 DEF NotFound
<1>5. ASSUME NEW p \in Procs, NEW w \in Procs, Raise(w, p) \/ Refuse(w, p)
      PROVE  TypeOK'
    BY <1>5 DEF Raise, Refuse
<1>6. ASSUME NEW p \in Procs, Create(p) \/ Show(p) \/ Fail(p) \/ End(p)
      PROVE  TypeOK'
    <2>1. CASE Create(p) BY <2>1 DEF Create
    <2>2. CASE Show(p) BY <2>2 DEF Show
    <2>3. CASE Fail(p) \/ End(p) BY <2>3 DEF Fail, End
    <2> QED BY <1>6, <2>1, <2>2, <2>3
<1>7. ASSUME NEW w \in Procs,
             Minimize(w) \/ ShowFromTray(w) \/ BeginClosing(w) \/ HideToInstall(w)
      PROVE  TypeOK'
    <2>1. CASE Minimize(w) BY <2>1 DEF Minimize, Leaves
    <2>2. CASE ShowFromTray(w) BY <2>2 DEF ShowFromTray
    <2>3. CASE BeginClosing(w) BY <2>3 DEF BeginClosing
    <2>4. CASE HideToInstall(w) BY <2>4 DEF HideToInstall, Leaves
    <2> QED BY <1>7, <2>1, <2>2, <2>3, <2>4
<1>8. ASSUME NEW w \in Procs, Destroy(w)
      PROVE  TypeOK'
    BY <1>8 DEF Destroy, Leaves
<1> QED
    BY <1>1, <1>2, <1>3, <1>4, <1>5, <1>6, <1>7, <1>8 DEF Next, Look, Answer

-----------------------------------------------------------------------------
(* One window *)

\* What goes wrong is remembered, and a shell closes only when something does.
LEMMA CalmStep ==
    ASSUME TypeOK, NoneCloses, [Next]_vars
    PROVE  NoneCloses' /\ (calm' => calm)
<1> USE DEF TypeOK
<1> DEFINE Calmly == UNCHANGED closing /\ (calm' => calm)
<1>1. CASE UNCHANGED vars
    <2>1. Calmly BY <1>1 DEF vars
    <2> QED BY <2>1 DEF NoneCloses
<1>2. ASSUME NEW p \in Procs, Launch(p) \/ Press(p) \/ Look(p) \/ Send(p) \/ TimeOut(p)
      PROVE  Calmly
    BY <1>2 DEF Launch, Press, Look, Found, NotFound, Send, TimeOut
<1>3. ASSUME NEW p \in Procs, NEW w \in Procs, Raise(w, p) \/ Refuse(w, p)
      PROVE  Calmly
    BY <1>3 DEF Raise, Refuse
<1>4. ASSUME NEW p \in Procs, Create(p) \/ Show(p) \/ Fail(p) \/ End(p)
      PROVE  Calmly
    BY <1>4 DEF Create, Show, Fail, End
<1>5. ASSUME NEW w \in Procs, Minimize(w) \/ ShowFromTray(w) \/ Destroy(w)
      PROVE  Calmly
    BY <1>5 DEF Minimize, ShowFromTray, Destroy
<1>6. ASSUME NEW w \in Procs, BeginClosing(w) \/ HideToInstall(w)
      PROVE  ~calm'
    BY <1>6 DEF BeginClosing, HideToInstall
<1>7. CASE Next
    <2>1. Calmly \/ ~calm'
        BY <1>7, <1>2, <1>3, <1>4, <1>5, <1>6 DEF Next, Answer
    <2> QED BY <2>1 DEF NoneCloses
<1> QED BY <1>1, <1>7

\* In a calm step a stand-in gets a window only by having found nobody marked.
LEMMA OneWindowStep ==
    ASSUME TypeOK, NoneCloses, OnePressOneWindow, [Next]_vars
    PROVE  OnePressOneWindow'
<1> SUFFICES ASSUME calm',
                    NEW p \in StandIns, NEW q \in StandIns,
                    pc'[p] \in Windowed, pc'[q] \in Windowed
             PROVE  p = q
    BY DEF OnePressOneWindow
<1>c. calm /\ \A w \in Procs : ~closing[w] BY CalmStep DEF NoneCloses
<1>t. p \in Procs /\ q \in Procs /\ pc \in [Procs -> Places]
    BY ProcsAssumption DEF TypeOK
<1>w. (pc[p] \in Windowed /\ pc[q] \in Windowed) => p = q
    BY <1>c DEF OnePressOneWindow
<1>1. CASE UNCHANGED vars BY <1>1, <1>w DEF vars
<1>2. ASSUME NEW r \in Procs, Press(r)
      PROVE  p = q
    <2>1. CASE Marked = {}
        <3>1. \A x \in Procs : pc[x] \notin Windowed BY <2>1 DEF Marked
        <3>2. \A x \in Procs : pc'[x] \in Windowed => x = r
            BY <1>2, <1>t, <3>1 DEF Press
        <3> QED BY <1>t, <3>2
    <2>2. CASE Marked # {}
        <3>1. pc' = [pc EXCEPT ![r] = "waiting"] BY <1>2, <2>2 DEF Press
        <3>2. pc[p] \in Windowed /\ pc[q] \in Windowed
            BY <1>t, <3>1 DEF Windowed
        <3> QED BY <3>2, <1>w
    <2> QED BY <2>1, <2>2
<1>3. ASSUME NEW r \in Procs,
             \/ Launch(r) \/ Look(r) \/ Send(r) \/ TimeOut(r)
             \/ \E w \in Procs : Raise(w, r) \/ Refuse(w, r)
             \/ Create(r) \/ Show(r) \/ Fail(r)
             \/ Minimize(r) \/ ShowFromTray(r)
             \/ BeginClosing(r) \/ HideToInstall(r) \/ Destroy(r) \/ End(r)
      PROVE  \A x \in StandIns : pc'[x] \in Windowed => pc[x] \in Windowed
    <2>s. StandIns \subseteq Procs BY ProcsAssumption
    <2> USE <1>c, <1>t, <2>s DEF Windowed
    <2>1. CASE Launch(r) BY <2>1 DEF Launch
    <2>2. CASE Look(r) BY <2>2 DEF Look, Found, NotFound
    <2>3. CASE Send(r) \/ TimeOut(r) BY <2>3 DEF Send, TimeOut
    <2>4. ASSUME NEW w \in Procs, Raise(w, r) \/ Refuse(w, r)
          PROVE  \A x \in StandIns : pc'[x] \in Windowed => pc[x] \in Windowed
        BY <2>4 DEF Raise, Refuse
    <2>5. CASE Create(r) \/ Show(r) \/ Fail(r) BY <2>5 DEF Create, Show, Fail
    <2>6. CASE Minimize(r) \/ ShowFromTray(r) BY <2>6 DEF Minimize, ShowFromTray
    <2>7. CASE BeginClosing(r) \/ HideToInstall(r)
        BY <2>7 DEF BeginClosing, HideToInstall
    <2>8. CASE Destroy(r) \/ End(r) BY <2>8 DEF Destroy, End
    <2> QED BY <1>3, <2>1, <2>2, <2>3, <2>4, <2>5, <2>6, <2>7, <2>8
<1> QED BY <1>1, <1>2, <1>3, <1>w DEF Next, Answer

\* It always holds.
LEMMA Invariance == HandoverSpec => []IInv
<1>1. IInv /\ [Next]_vars => IInv'
    BY TypeStep, CalmStep, OneWindowStep DEF IInv
<1> QED BY InitInv, <1>1, PTL DEF HandoverSpec

\* Every process is at a place run or raise_existing has, and no stand-in looks
\* past its patience, for any number of processes (instance.rs, raise_existing).
THEOREM TypeCorrect == HandoverSpec => []TypeOK
<1>1. IInv => TypeOK BY DEF IInv
<1> QED BY <1>1, Invariance, PTL

\* However many stand-ins start at once, one of them opens a window, as long as no
\* window hides, closes, fails or keeps one waiting (instance.rs, mark).
THEOREM OneWindow == HandoverSpec => []OnePressOneWindow
<1>1. IInv => OnePressOneWindow BY DEF IInv
<1> QED BY <1>1, Invariance, PTL
=============================================================================
