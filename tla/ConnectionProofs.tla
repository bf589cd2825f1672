-------------------------- MODULE ConnectionProofs --------------------------
(***************************************************************************)
(* Facts about what a connection carries.  Frames: writing a frame behind  *)
(* whole frames, reading some units, and taking the first frame off leave  *)
(* whole frames.  Requests: the CLI's table of commands against the core's *)
(* table of methods, entry by entry.                                       *)
(***************************************************************************)
EXTENDS Connection, SequenceTheorems, TLAPS

\* Unless a leaf names Zenon it is one for SMT; the limit leaves a slow machine its time.
USE SMTT(60)

(* The frame that unit i of s is a part of is there from its length to its *)
(* last piece, and another frame follows it or nothing does.               *)
WholeAt(s, i) ==
    LET first == i - s[i].part IN
    /\ s[i].part \in 0 .. BodyParts
    /\ first \in DOMAIN s
    /\ \A j \in 0 .. BodyParts :
          first + j \in DOMAIN s /\ s[first + j] = [msg |-> s[i].msg, part |-> j]
    /\ s[i].part = BodyParts /\ i + 1 \in DOMAIN s => s[i + 1].part = 0

WholeFrames(s) == \A i \in DOMAIN s : WholeAt(s, i)

(* w is s, of length n, and behind it t, of length k. *)
JoinOf(w, s, n, t, k) ==
    /\ n \in Nat /\ DOMAIN s = 1 .. n
    /\ k \in Nat /\ DOMAIN t = 1 .. k
    /\ DOMAIN w = 1 .. n + k
    /\ \A i \in 1 .. n : w[i] = s[i]
    /\ \A i \in 1 .. k : w[n + i] = t[i]

LEMMA Joined ==
    ASSUME NEW U, NEW s \in Seq(U), NEW t \in Seq(U)
    PROVE  s \o t \in Seq(U) /\ JoinOf(s \o t, s, Len(s), t, Len(t))
<1>1. /\ Len(s) \in Nat /\ DOMAIN s = 1 .. Len(s)
      /\ Len(t) \in Nat /\ DOMAIN t = 1 .. Len(t)
  BY LenProperties
<1> DEFINE w == s \o t
<1>2. /\ w \in Seq(U) /\ Len(w) = Len(s) + Len(t)
      /\ \A i \in 1 .. Len(s) + Len(t) :
            w[i] = IF i <= Len(s) THEN s[i] ELSE t[i - Len(s)]
  BY ConcatProperties
<1>3. DOMAIN w = 1 .. Len(s) + Len(t) BY <1>2, LenProperties
<1> HIDE DEF w
<1>4. \A i \in 1 .. Len(s) : w[i] = s[i] BY <1>1, <1>2
<1>5. ASSUME NEW i \in 1 .. Len(t) PROVE w[Len(s) + i] = t[i]
  <2>1. /\ Len(s) + i \in 1 .. Len(s) + Len(t) /\ ~(Len(s) + i <= Len(s))
        /\ Len(s) + i - Len(s) = i
    BY <1>1
  <2> QED BY <1>2, <2>1
<1> QED BY <1>1, <1>2, <1>3, <1>4, <1>5 DEF w, JoinOf

LEMMA FrameUnits ==
    ASSUME NEW M, NEW m \in M
    PROVE  /\ Frame(m) \in Seq([msg : M, part : 0 .. BodyParts])
           /\ Len(Frame(m)) = 1 + BodyParts
BY BodyPartsAssumption DEF Frame

(* A frame written behind whole frames leaves whole frames. *)
LEMMA FramesAppend ==
    ASSUME NEW s, NEW n, NEW m, NEW w,
           JoinOf(w, s, n, Frame(m), 1 + BodyParts), WholeFrames(s)
    PROVE  WholeFrames(w)
<1> USE BodyPartsAssumption
<1>1. /\ n \in Nat /\ DOMAIN s = 1 .. n
      /\ DOMAIN w = 1 .. n + (1 + BodyParts)
      /\ \A i \in 1 .. n : w[i] = s[i]
      /\ \A i \in 1 .. 1 + BodyParts : w[n + i] = Frame(m)[i]
  BY DEF JoinOf
<1>2. ASSUME NEW i \in n + 1 .. n + 1 + BodyParts
      PROVE  w[i] = [msg |-> m, part |-> i - n - 1]
  <2>1. i - n \in 1 .. 1 + BodyParts /\ n + (i - n) = i BY <1>1
  <2>2. w[i] = Frame(m)[i - n] BY <1>1, <2>1
  <2>3. Frame(m)[i - n] = [msg |-> m, part |-> i - n - 1] BY <2>1 DEF Frame
  <2> QED BY <2>2, <2>3
<1>3. ASSUME NEW i \in 1 .. n PROVE WholeAt(w, i)
  <2> DEFINE first == i - s[i].part
  <2>1. w[i] = s[i] /\ i \in DOMAIN s BY <1>1
  <2>2. /\ s[i].part \in 0 .. BodyParts
        /\ first \in DOMAIN s
        /\ \A j \in 0 .. BodyParts :
              first + j \in DOMAIN s /\ s[first + j] = [msg |-> s[i].msg, part |-> j]
        /\ s[i].part = BodyParts /\ i + 1 \in DOMAIN s => s[i + 1].part = 0
    BY <2>1 DEF WholeFrames, WholeAt
  <2> HIDE DEF first
  <2>3. \A k \in DOMAIN s : k \in DOMAIN w /\ w[k] = s[k] BY <1>1
  <2>4. s[i].part = BodyParts /\ i + 1 \in DOMAIN w => w[i + 1].part = 0
    <3>1. CASE i + 1 \in DOMAIN s BY <3>1, <2>2, <2>3
    <3>2. CASE i + 1 \notin DOMAIN s
      <4> DEFINE k == i + 1
      <4>1. k \in n + 1 .. n + 1 + BodyParts /\ k - n - 1 = 0 BY <3>2, <1>1
      <4> HIDE DEF k
      <4>2. w[k] = [msg |-> m, part |-> 0] BY <4>1, <1>2
      <4> QED BY <4>2 DEF k
    <3> QED BY <3>1, <3>2
  <2> QED BY <2>1, <2>2, <2>3, <2>4 DEF WholeAt, first
<1>4. ASSUME NEW i \in n + 1 .. n + 1 + BodyParts PROVE WholeAt(w, i)
  <2>1. w[i] = [msg |-> m, part |-> i - n - 1] BY <1>2
  <2>2. w[i].msg = m /\ w[i].part = i - n - 1 BY <2>1
  <2>3. i - w[i].part = n + 1 BY <2>2, <1>1
  <2>4. ASSUME NEW j \in 0 .. BodyParts
        PROVE  n + 1 + j \in DOMAIN w /\ w[n + 1 + j] = [msg |-> m, part |-> j]
    <3> DEFINE k == n + 1 + j
    <3>0. n \in Nat BY <1>1
    <3>1. k \in n + 1 .. n + 1 + BodyParts /\ k - n - 1 = j BY <3>0
    <3>2. k \in DOMAIN w BY <1>1
    <3> HIDE DEF k
    <3>3. w[k] = [msg |-> m, part |-> k - n - 1] BY <3>1, <1>2
    <3> QED BY <3>1, <3>2, <3>3 DEF k
  <2>5. n + 1 \in DOMAIN w BY <1>1
  <2>6. w[i].part = BodyParts => i + 1 \notin DOMAIN w BY <2>2, <1>1
  <2>7. w[i].part \in 0 .. BodyParts BY <2>2, <1>1
  <2> QED BY <2>2, <2>3, <2>4, <2>5, <2>6, <2>7 DEF WholeAt
<1>5. \A i \in DOMAIN w : i \in 1 .. n \/ i \in n + 1 .. n + 1 + BodyParts
  BY <1>1
<1> QED BY <1>3, <1>4, <1>5 DEF WholeFrames

(* Of whole frames, the first units are those of one frame, in order. *)
LEMMA FirstFrame ==
    ASSUME NEW w, NEW s, NEW n, NEW t, NEW k, JoinOf(w, s, n, t, k), WholeFrames(w)
    PROVE  \A i \in 1 .. n :
              i <= 1 + BodyParts => s[i] = [msg |-> s[1].msg, part |-> i - 1]
<1> USE BodyPartsAssumption
<1>1. /\ n \in Nat /\ k \in Nat /\ DOMAIN w = 1 .. n + k
      /\ \A i \in 1 .. n : w[i] = s[i]
  BY DEF JoinOf
<1> SUFFICES ASSUME NEW i \in 1 .. n, i <= 1 + BodyParts
             PROVE  s[i] = [msg |-> s[1].msg, part |-> i - 1]
  OBVIOUS
<1>2. 1 \in DOMAIN w BY <1>1
<1>3. /\ w[1].part \in 0 .. BodyParts
      /\ 1 - w[1].part \in DOMAIN w
      /\ \A j \in 0 .. BodyParts : w[1 - w[1].part + j] = [msg |-> w[1].msg, part |-> j]
  BY <1>2 DEF WholeFrames, WholeAt
<1>4. w[1].part = 0 BY <1>1, <1>3
<1> DEFINE j == i - 1
<1>5. j \in 0 .. BodyParts /\ 1 - w[1].part + j = i BY <1>1, <1>4
<1> HIDE DEF j
<1>6. w[i] = [msg |-> w[1].msg, part |-> j] BY <1>3, <1>5
<1>7. w[i] = s[i] /\ w[1] = s[1] BY <1>1
<1> QED BY <1>6, <1>7 DEF j

(* What is left of whole frames when the first has been taken is whole     *)
(* frames: no frame of a later unit begins in the first one.               *)
LEMMA FramesDropFirst ==
    ASSUME NEW w, NEW s, NEW t, NEW k, JoinOf(w, s, 1 + BodyParts, t, k), WholeFrames(w)
    PROVE  WholeFrames(t)
<1> USE BodyPartsAssumption
<1> DEFINE n == 1 + BodyParts
<1>1. /\ n \in Nat /\ k \in Nat /\ DOMAIN w = 1 .. n + k /\ DOMAIN t = 1 .. k
      /\ \A i \in 1 .. n : w[i] = s[i]
      /\ \A i \in 1 .. k : w[n + i] = t[i]
  BY DEF JoinOf
<1>2. \A i \in 1 .. n : i <= n => s[i] = [msg |-> s[1].msg, part |-> i - 1]
  BY FirstFrame
<1>3. n = 1 + BodyParts OBVIOUS
<1> HIDE DEF n
<1>4. ASSUME NEW i \in 1 .. n PROVE w[i].part = i - 1
  <2>1. s[i] = [msg |-> s[1].msg, part |-> i - 1] BY <1>1, <1>2
  <2> QED BY <1>1, <2>1
<1> SUFFICES ASSUME NEW i \in 1 .. k PROVE WholeAt(t, i)
  BY <1>1 DEF WholeFrames
<1> DEFINE p == t[i].part
           first == (n + i) - p
<1>5. n + i \in DOMAIN w /\ w[n + i] = t[i] BY <1>1
<1>6. /\ p \in 0 .. BodyParts
      /\ first \in DOMAIN w
      /\ \A j \in 0 .. BodyParts :
            first + j \in DOMAIN w /\ w[first + j] = [msg |-> t[i].msg, part |-> j]
      /\ p = BodyParts /\ n + i + 1 \in DOMAIN w => w[n + i + 1].part = 0
  <2> DEFINE u == n + i
  <2>1. u \in DOMAIN w /\ w[u] = t[i] BY <1>5
  <2> HIDE DEF u
  <2>2. /\ w[u].part \in 0 .. BodyParts
        /\ u - w[u].part \in DOMAIN w
        /\ \A j \in 0 .. BodyParts :
              /\ u - w[u].part + j \in DOMAIN w
              /\ w[u - w[u].part + j] = [msg |-> w[u].msg, part |-> j]
        /\ w[u].part = BodyParts /\ u + 1 \in DOMAIN w => w[u + 1].part = 0
    BY <2>1 DEF WholeFrames, WholeAt
  <2>3. u - t[i].part = first /\ u + 1 = n + i + 1 BY DEF u
  <2> QED BY <2>1, <2>2, <2>3
<1>7. p \in Int /\ first \in Int /\ first + 0 = first BY <1>1, <1>6
<1>8. w[first].part = 0
  <2>1. w[first] = [msg |-> t[i].msg, part |-> 0]
    <3>1. 0 \in 0 .. BodyParts OBVIOUS
    <3> QED BY <1>6, <1>7, <3>1
  <2> QED BY <2>1
<1>9. first = (n + i) - p OBVIOUS
<1> HIDE DEF first, p
<1>10. first > n
  <2> SUFFICES ASSUME first \in 1 .. n PROVE FALSE BY <1>1, <1>6, <1>7
  <2>1. w[first].part = first - 1 BY <1>4
  <2>2. first = 1 BY <2>1, <1>7, <1>8
  <2> QED BY <2>2, <1>1, <1>3, <1>6, <1>9
<1>11. i - p \in 1 .. k BY <1>1, <1>6, <1>7, <1>9, <1>10
<1>12. ASSUME NEW j \in 0 .. BodyParts
       PROVE  i - p + j \in 1 .. k /\ t[i - p + j] = [msg |-> t[i].msg, part |-> j]
  <2> DEFINE v == i - p + j
  <2>1. first + j \in DOMAIN w /\ w[first + j] = [msg |-> t[i].msg, part |-> j] BY <1>6
  <2>2. v \in 1 .. k /\ n + v = first + j BY <2>1, <1>1, <1>7, <1>9, <1>10
  <2> HIDE DEF v
  <2>3. w[n + v] = t[v] BY <2>2, <1>1
  <2> QED BY <2>1, <2>2, <2>3 DEF v
<1>13. p = BodyParts /\ i + 1 \in 1 .. k => t[i + 1].part = 0
  <2> SUFFICES ASSUME p = BodyParts, i + 1 \in 1 .. k PROVE t[i + 1].part = 0
    OBVIOUS
  <2> DEFINE v == i + 1
  <2>1. n \in Nat /\ k \in Nat /\ i \in Nat /\ v \in 1 .. k BY <1>1
  <2>2. n + i + 1 = n + v /\ n + v \in 1 .. n + k BY <2>1
  <2>3. n + v \in DOMAIN w /\ w[n + v] = t[v] BY <1>1, <2>1, <2>2
  <2> QED BY <2>2, <2>3, <1>6
<1> QED BY <1>1, <1>6, <1>11, <1>12, <1>13 DEF WholeAt, p

(* A read moves units from the stream to the frame that is being read, and *)
(* changes nothing of the two together.                                    *)
ReadOf(k, g, u, gNew, uNew) ==
    gNew = g \o SubSeq(u, 1, k) /\ uNew = SubSeq(u, k + 1, Len(u))

LEMMA ReadMoves ==
    ASSUME NEW U, NEW g \in Seq(U), NEW u \in Seq(U), NEW k \in 1 .. Len(u),
           NEW gNew, NEW uNew, ReadOf(k, g, u, gNew, uNew)
    PROVE  /\ gNew \in Seq(U) /\ uNew \in Seq(U)
           /\ Len(gNew) = Len(g) + k
           /\ WholeFrames(g \o u) => WholeFrames(gNew \o uNew)
<1> DEFINE a == SubSeq(u, 1, k)
           b == SubSeq(u, k + 1, Len(u))
<1>1. Len(u) \in Nat /\ \A i \in 1 .. Len(u) : u[i] \in U
  BY LenProperties, ElementOfSeq
<1>2. a \in Seq(U) /\ Len(a) = k
  <2>1. \A i \in 1 .. k : u[i] \in U BY <1>1
  <2> QED BY <1>1, <2>1, SubSeqProperties
<1>3. b \in Seq(U)
  <2>1. \A i \in k + 1 .. Len(u) : u[i] \in U BY <1>1
  <2> QED BY <1>1, <2>1, SubSeqProperties
<1>4. a \o b = u
  <2>1. 1 \in 1 .. Len(u) + 1 /\ k \in 1 - 1 .. Len(u) /\ Len(u) \in k .. Len(u)
    BY <1>1
  <2>2. a \o b = SubSeq(u, 1, Len(u)) BY <2>1, ConcatAdjacentSubSeq, ZenonT(60)
  <2> QED BY <2>2, SubSeqFull
<1> HIDE DEF a, b
<1>5. g \o a \in Seq(U) /\ Len(g \o a) = Len(g) + Len(a)
  BY <1>2, ConcatProperties, ZenonT(60)
<1>6. (g \o a) \o b = g \o (a \o b) BY <1>2, <1>3
<1>7. gNew = g \o a /\ uNew = b BY DEF ReadOf, a, b
<1> QED BY <1>2, <1>3, <1>4, <1>5, <1>6, <1>7, ZenonT(60)

-----------------------------------------------------------------------------
(* The methods of a part of the dispatch table. *)
MethodsOf(table) == {e.method : e \in table}

(* The places of c that have to be filled give the handler e what it       *)
(* insists on, and no place of getTree takes a string that is no handle.   *)
Covers(c, e) ==
    /\ \A p \in e.required : \E i \in DOMAIN c.places :
          /\ i \in 1 .. c.least
          /\ c.places[i].name = p.name /\ KindOk(p.kind, c.places[i].kind)
    /\ e.method = "window.getTree" =>
          \A i \in DOMAIN c.places : c.places[i].kind # "str"

(* The daemon answers the method of c itself, or it is in the table and    *)
(* the parameters of c are the ones of that entry.                         *)
Fits(c) ==
    /\ c.least \in Nat
    /\ \/ c.method \in DaemonHandled
       \/ /\ c.method \in MethodsOf(dispatch)
          /\ \A e \in dispatch : e.method = c.method => Covers(c, e)

LEMMA MethodNames ==
    /\ MethodsOf(WindowMethods) = {
         "window.listTop", "window.listChildren", "window.getTree",
         "window.highlight", "window.getInfo", "window.pickAtPoint"}
    /\ MethodsOf(DesiredStateMethods) = {
         "window.ensureVisible", "window.ensureForeground",
         "window.setProperty", "window.postMessage"}
    /\ MethodsOf(InputMethods) = {
         "input.send", "input.mouseClick", "input.keyPress", "input.text",
         "window.controlClick", "window.controlSend"}
    /\ MethodsOf(ScreenMethods) = {
         "screen.getPixel", "screen.capture", "screen.pixelSearch"}
    /\ MethodsOf(ProcessMethods) = {
         "process.list", "process.kill", "file.getInfo", "file.read"}
    /\ MethodsOf(SystemMethods) = {
         "clipboard.read", "clipboard.write", "service.list",
         "service.status", "service.control", "env.get", "env.set",
         "wine.drives", "wine.overrides", "sync.checkMutex",
         "sync.createMutex"}
    /\ MethodsOf(MemoryMethods) = {
         "mem.read", "mem.write", "image.match", "input.hook"}
    /\ MethodsOf(RegistryMethods) = {
         "window.findRegex", "reg.read", "reg.write", "reg.delete",
         "ui.inspect", "ui.invoke"}
    /\ MethodsOf(DaemonMethods) = {
         "daemon.health", "daemon.capabilities", "daemon.checkUpdate",
         "daemon.downloadUpdate", "daemon.logs"}
    /\ MethodsOf(SessionMethods) = {
         "events.poll", "session.terminate"}
BY DEF MethodsOf, Entry, WindowMethods, DesiredStateMethods, InputMethods, ScreenMethods,
       ProcessMethods, SystemMethods, MemoryMethods, RegistryMethods, DaemonMethods,
       SessionMethods

(* Every entry is in one of the parts. *)
LEMMA InTables ==
    ASSUME NEW e \in dispatch
    PROVE  \E table \in {WindowMethods, DesiredStateMethods, InputMethods, ScreenMethods,
                          ProcessMethods, SystemMethods, MemoryMethods, RegistryMethods,
                          DaemonMethods, SessionMethods} :
              e \in table /\ e.method \in MethodsOf(table)
BY DEF dispatch, MethodsOf

LEMMA WindowCommandsFit ==
    ASSUME NEW c \in CliWindowCommands
    PROVE  Fits(c)
<1>1. /\ c.least \in Nat
      /\ c.method \notin DaemonHandled =>
            c.method \in MethodsOf(WindowMethods) \cup MethodsOf(DesiredStateMethods)
  BY MethodNames DEF CliWindowCommands, Command, Plain, DaemonHandled
<1>2. ASSUME NEW e \in dispatch, e.method = c.method, c.method \notin DaemonHandled
      PROVE  Covers(c, e)
  <2>1. e \in WindowMethods \cup DesiredStateMethods
    BY <1>1, <1>2, MethodNames, InTables
  <2> USE DEF CliWindowCommands, Command, Plain, Covers, Entry, Hwnd, Point, Region, All, NoParams,
              Param, HwndPlace, Num, Str, Bool, KindOk
  <2>2. CASE e \in WindowMethods BY <1>2, <2>2 DEF WindowMethods
  <2>3. CASE e \in DesiredStateMethods BY <1>2, <2>3 DEF DesiredStateMethods
  <2> HIDE DEF CliWindowCommands, Covers
  <2> QED BY <2>1, <2>2, <2>3
<1> QED BY <1>1, <1>2 DEF Fits, MethodsOf, dispatch

LEMMA InputCommandsFit ==
    ASSUME NEW c \in CliInputCommands
    PROVE  Fits(c)
<1>1. /\ c.least \in Nat
      /\ c.method \notin DaemonHandled =>
            c.method \in MethodsOf(InputMethods) \cup MethodsOf(ScreenMethods)
  BY MethodNames DEF CliInputCommands, Command, Plain, DaemonHandled
<1>2. ASSUME NEW e \in dispatch, e.method = c.method, c.method \notin DaemonHandled
      PROVE  Covers(c, e)
  <2>1. e \in InputMethods \cup ScreenMethods
    BY <1>1, <1>2, MethodNames, InTables
  <2> USE DEF CliInputCommands, Command, Plain, Covers, Entry, Hwnd, Point, Region, All, NoParams,
              Param, HwndPlace, Num, Str, Bool, KindOk
  <2>2. CASE e \in InputMethods BY <1>2, <2>2 DEF InputMethods
  <2>3. CASE e \in ScreenMethods BY <1>2, <2>3 DEF ScreenMethods
  <2> HIDE DEF CliInputCommands, Covers
  <2> QED BY <2>1, <2>2, <2>3
<1> QED BY <1>1, <1>2 DEF Fits, MethodsOf, dispatch

LEMMA SystemCommandsFit ==
    ASSUME NEW c \in CliSystemCommands
    PROVE  Fits(c)
<1>1. /\ c.least \in Nat
      /\ c.method \notin DaemonHandled =>
            c.method \in MethodsOf(ProcessMethods) \cup MethodsOf(RegistryMethods)
                         \cup MethodsOf(SystemMethods)
  BY MethodNames DEF CliSystemCommands, Command, Plain, DaemonHandled
<1>2. ASSUME NEW e \in dispatch, e.method = c.method, c.method \notin DaemonHandled
      PROVE  Covers(c, e)
  <2>1. e \in ProcessMethods \cup RegistryMethods \cup SystemMethods
    BY <1>1, <1>2, MethodNames, InTables
  <2> USE DEF CliSystemCommands, Command, Plain, Covers, Entry, Hwnd, Point, Region, All, NoParams,
              Param, HwndPlace, Num, Str, Bool, KindOk
  <2>2. CASE e \in ProcessMethods BY <1>2, <2>2 DEF ProcessMethods
  <2>3. CASE e \in RegistryMethods BY <1>2, <2>3 DEF RegistryMethods
  <2>4. CASE e \in SystemMethods BY <1>2, <2>4 DEF SystemMethods
  <2> HIDE DEF CliSystemCommands, Covers
  <2> QED BY <2>1, <2>2, <2>3, <2>4
<1> QED BY <1>1, <1>2 DEF Fits, MethodsOf, dispatch

LEMMA ProcessCommandsFit ==
    ASSUME NEW c \in CliProcessCommands
    PROVE  Fits(c)
<1>1. /\ c.least \in Nat
      /\ c.method \notin DaemonHandled =>
            c.method \in MethodsOf(SystemMethods) \cup MethodsOf(MemoryMethods)
  BY MethodNames DEF CliProcessCommands, Command, Plain, DaemonHandled
<1>2. ASSUME NEW e \in dispatch, e.method = c.method, c.method \notin DaemonHandled
      PROVE  Covers(c, e)
  <2>1. e \in SystemMethods \cup MemoryMethods
    BY <1>1, <1>2, MethodNames, InTables
  <2> USE DEF CliProcessCommands, Command, Plain, Covers, Entry, Hwnd, Point, Region, All, NoParams,
              Param, HwndPlace, Num, Str, Bool, KindOk
  <2>2. CASE e \in SystemMethods BY <1>2, <2>2 DEF SystemMethods
  <2>3. CASE e \in MemoryMethods BY <1>2, <2>3 DEF MemoryMethods
  <2> HIDE DEF CliProcessCommands, Covers
  <2> QED BY <2>1, <2>2, <2>3
<1> QED BY <1>1, <1>2 DEF Fits, MethodsOf, dispatch

LEMMA EventCommandsFit ==
    ASSUME NEW c \in CliEventCommands, c.name # "status"
    PROVE  Fits(c)
<1>1. /\ c.least \in Nat
      /\ c.method \notin DaemonHandled =>
            c.method \in MethodsOf(SessionMethods)
  BY MethodNames DEF CliEventCommands, Command, Plain, DaemonHandled
<1>2. ASSUME NEW e \in dispatch, e.method = c.method, c.method \notin DaemonHandled
      PROVE  Covers(c, e)
  <2>1. e \in SessionMethods
    BY <1>1, <1>2, MethodNames, InTables
  <2> QED BY <1>2, <2>1 DEF CliEventCommands, Command, Plain, Covers, Entry, SessionMethods,
         Hwnd, Point, Region, All, NoParams, Param, HwndPlace, Num, Str, Bool, KindOk
<1> QED BY <1>1, <1>2 DEF Fits, MethodsOf, dispatch

LEMMA ActionCommandsFit ==
    ASSUME NEW c \in CliActionCommands
    PROVE  Fits(c)
<1>1. /\ c.least \in Nat
      /\ c.method \notin DaemonHandled =>
            c.method \in MethodsOf(DesiredStateMethods) \cup MethodsOf(InputMethods)
                         \cup MethodsOf(RegistryMethods) \cup MethodsOf(DaemonMethods)
  BY MethodNames DEF CliActionCommands, Command, Plain, DaemonHandled
<1>2. ASSUME NEW e \in dispatch, e.method = c.method, c.method \notin DaemonHandled
      PROVE  Covers(c, e)
  <2>1. e \in DesiredStateMethods \cup InputMethods \cup RegistryMethods \cup DaemonMethods
    BY <1>1, <1>2, MethodNames, InTables
  <2> USE DEF CliActionCommands, Command, Plain, Covers, Entry, Hwnd, Point, Region, All, NoParams,
              Param, HwndPlace, Num, Str, Bool, KindOk
  <2>2. CASE e \in DesiredStateMethods BY <1>2, <2>2 DEF DesiredStateMethods
  <2>3. CASE e \in InputMethods BY <1>2, <2>3 DEF InputMethods
  <2>4. CASE e \in RegistryMethods BY <1>2, <2>4 DEF RegistryMethods
  <2>5. CASE e \in DaemonMethods BY <1>2, <2>5 DEF DaemonMethods
  <2> HIDE DEF CliActionCommands, Covers
  <2> QED BY <2>1, <2>2, <2>3, <2>4, <2>5
<1> QED BY <1>1, <1>2 DEF Fits, MethodsOf, dispatch

(* So does every command but status. *)
LEMMA CommandsFit ==
    ASSUME NEW c \in CliCommands, c.name # "status"
    PROVE  Fits(c)
BY WindowCommandsFit, InputCommandsFit, SystemCommandsFit, ProcessCommandsFit,
   EventCommandsFit, ActionCommandsFit DEF CliCommands

(* A request that fits is answered by the backend, whatever the backend    *)
(* makes of it, by the daemon or by a refusal.                             *)
LEMMA AnswerUnderstood ==
    ASSUME NEW c, Fits(c), NEW n \in Nat, n >= c.least,
           NEW m, m.method = c.method, m.params = CliParams(c, n, TRUE),
           NEW r \in Answers(m)
    PROVE  r.stage \notin {"parse", "method", "params"}
<1> USE DEF CoreResponse
<1>1. CASE r = Refusal
  BY <1>1 DEF Refusal
<1>2. CASE m.method \in DaemonHandled
  BY <1>2 DEF Answers, Refusal
<1>3. CASE m.method \notin DaemonHandled /\ r # Refusal
  <2>1. PICK s \in BOOLEAN : r = handle(c.method, CliParams(c, n, TRUE), s)
    BY <1>3, ZenonT(60) DEF Answers
  <2> DEFINE e == CHOOSE x \in dispatch : x.method = c.method
  <2>2. \E x \in dispatch : x.method = c.method
    BY <1>3 DEF Fits, MethodsOf
  <2>3. e \in dispatch /\ e.method = c.method
    BY <2>2
  <2>4. r = Handled(e, CliParams(c, n, TRUE), s)
    BY <2>1, <2>2, ZenonT(60) DEF handle
  <2>5. Covers(c, e) /\ c.least \in Nat
    BY <1>3, <2>3 DEF Fits
  <2> HIDE DEF e
  <2>6. \A i \in DOMAIN c.places : i \in 1 .. c.least => c.places[i] \in CliParams(c, n, TRUE)
    BY <2>5 DEF CliParams
  <2>7. \A q \in CliParams(c, n, TRUE) : \E i \in DOMAIN c.places : q = c.places[i]
    BY DEF CliParams
  <2>8. ParamsOk(e, CliParams(c, n, TRUE))
    <3> DEFINE given == CliParams(c, n, TRUE)
    <3> HIDE DEF given
    <3>1. ASSUME NEW p \in e.required
          PROVE  \E q \in given : q.name = p.name /\ KindOk(p.kind, q.kind)
      <4>1. PICK i \in DOMAIN c.places :
              /\ i \in 1 .. c.least
              /\ c.places[i].name = p.name /\ KindOk(p.kind, c.places[i].kind)
        BY <2>5, <3>1 DEF Covers
      <4>2. c.places[i] \in given BY <2>6, <4>1, ZenonT(60) DEF given
      <4> QED BY <4>1, <4>2
    <3>2. ASSUME e.method = "window.getTree" PROVE Param("hwnd", "str") \notin given
      <4>1. \A q \in given : q.kind # "str"
        BY <2>5, <2>7, <3>2, ZenonT(60) DEF Covers, given
      <4>2. Param("hwnd", "str").kind = "str" BY DEF Param
      <4> QED BY <4>1, <4>2
    <3> QED BY <3>1, <3>2, ZenonT(60) DEF ParamsOk, given
  <2> QED BY <2>4, <2>8 DEF Handled
<1> QED BY <1>1, <1>2, <1>3

(* status names a method that is in no part of the table, and that the     *)
(* daemon does not answer itself: handle has no handler for it.            *)
LEMMA StatusUnknown ==
    ASSUME NEW c \in CliCommands, c.name = "status",
           NEW m, m.method = c.method, NEW r \in Answers(m)
    PROVE  r.stage = "method" \/ r = Refusal
<1>1. m.method = "daemon.status"
  BY DEF CliCommands, CliWindowCommands, CliInputCommands, CliSystemCommands,
         CliProcessCommands, CliEventCommands, CliActionCommands, Command, Plain
<1>2. "daemon.status" \notin DaemonHandled BY DEF DaemonHandled
<1>3. ~\E e \in dispatch : e.method = "daemon.status"
  BY MethodNames, InTables
<1>4. CASE r # Refusal
  <2>1. PICK s \in BOOLEAN : r = handle("daemon.status", m.params, s)
    BY <1>1, <1>2, <1>4, ZenonT(60) DEF Answers
  <2> QED BY <1>3, <2>1 DEF handle, CoreResponse
<1> QED BY <1>4
=============================================================================
