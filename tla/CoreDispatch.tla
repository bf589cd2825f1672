---------------------------- MODULE CoreDispatch ----------------------------
(***************************************************************************)
(* CoreEngine: the table of methods and handle, which looks a request up   *)
(* in it.  A parameter is abstracted to its kind: "num", "bool", "str" or  *)
(* "handle", a string that parse_hwnd accepts.  Of a method the table says *)
(* which parameters its handler insists on and what it makes of a backend  *)
(* call that fails:                                                        *)
(*   "inside"  ok:true, the failure is told inside the result;             *)
(*   "throws"  an exception, which handle turns into E_BAD_REQUEST;        *)
(*   "bare"    ok:false with an empty error code;                          *)
(*   otherwise ok:false with that error code.                              *)
(***************************************************************************)
EXTENDS Integers, FiniteSets

Kinds == {"num", "bool", "str", "handle"}

Param(name, kind) == [name |-> name, kind |-> kind]

NoParams == {}

(* Every name of S as a parameter of kind k. *)
All(S, k) == {Param(p, k) : p \in S}

Entry(method, required, failure) ==
    [method |-> method, required |-> required, failure |-> failure]

Hwnd == {Param("hwnd", "handle")}

Point == All({"x", "y"}, "num")

Region == All({"left", "top", "right", "bottom"}, "num")

WindowMethods ==
    {Entry("window.listTop", NoParams, "inside"),
     Entry("window.listChildren", Hwnd, "inside"),
     Entry("window.getTree", NoParams, "inside"),
     Entry("window.highlight", Hwnd, "inside"),
     Entry("window.getInfo", Hwnd, "E_BAD_HWND"),
     Entry("window.pickAtPoint", Point, "E_NOT_FOUND")}

DesiredStateMethods ==
    {Entry("window.ensureVisible", Hwnd \cup {Param("visible", "bool")}, "inside"),
     Entry("window.ensureForeground", Hwnd, "inside"),
     Entry("window.setProperty", Hwnd \cup All({"name", "value"}, "str"), "inside"),
     Entry("window.postMessage", Hwnd \cup {Param("msg", "num")}, "inside")}

InputMethods ==
    {Entry("input.send", {Param("data_b64", "str")}, "inside"),
     Entry("input.mouseClick", Point, "inside"),
     Entry("input.keyPress", {Param("vk", "num")}, "inside"),
     Entry("input.text", {Param("text", "str")}, "inside"),
     Entry("window.controlClick", Hwnd \cup Point, "inside"),
     Entry("window.controlSend", Hwnd \cup {Param("text", "str")}, "inside")}

ScreenMethods ==
    {Entry("screen.getPixel", Point, "throws"),
     Entry("screen.capture", Region, "throws"),
     Entry("screen.pixelSearch", Region \cup All({"r", "g", "b"}, "num"), "E_NOT_FOUND")}

ProcessMethods ==
    {Entry("process.list", NoParams, "inside"),
     Entry("process.kill", {Param("pid", "num")}, "inside"),
     Entry("file.getInfo", {Param("path", "str")}, "E_NOT_FOUND"),
     Entry("file.read", {Param("path", "str")}, "E_READ_FAILED")}

SystemMethods ==
    {Entry("clipboard.read", NoParams, "inside"),
     Entry("clipboard.write", {Param("text", "str")}, "inside"),
     Entry("service.list", NoParams, "inside"),
     Entry("service.status", {Param("name", "str")}, "inside"),
     Entry("service.control", All({"name", "action"}, "str"), "inside"),
     Entry("env.get", NoParams, "inside"),
     Entry("env.set", All({"name", "value"}, "str"), "inside"),
     Entry("wine.drives", NoParams, "inside"),
     Entry("wine.overrides", NoParams, "inside"),
     Entry("sync.checkMutex", {Param("name", "str")}, "inside"),
     Entry("sync.createMutex", {Param("name", "str")}, "inside")}

MemoryMethods ==
    {Entry("mem.read", All({"pid", "address", "size"}, "num"), "bare"),
     Entry("mem.write", All({"pid", "address"}, "num") \cup {Param("data_b64", "str")}, "inside"),
     Entry("image.match", Region \cup {Param("sub_image_b64", "str")}, "bare"),
     Entry("input.hook", {Param("enabled", "bool")}, "inside")}

RegistryMethods ==
    {Entry("window.findRegex", NoParams, "inside"),
     Entry("reg.read", {Param("path", "str")}, "E_NOT_FOUND"),
     Entry("reg.write", All({"path", "name", "type", "data"}, "str"), "inside"),
     Entry("reg.delete", {Param("path", "str")}, "inside"),
     Entry("ui.inspect", Hwnd, "inside"),
     Entry("ui.invoke", Hwnd \cup {Param("automation_id", "str")}, "inside")}

(* Health and capabilities cannot fail; logs fail when --admin-logs is off. *)
DaemonMethods ==
    {Entry("daemon.health", NoParams, "inside"),
     Entry("daemon.capabilities", NoParams, "inside"),
     Entry("daemon.checkUpdate", NoParams, "inside"),
     Entry("daemon.downloadUpdate", NoParams, "bare"),
     Entry("daemon.logs", NoParams, "E_ACCESS_DENIED")}

(* poll fails without an old snapshot to compare with. *)
SessionMethods ==
    {Entry("events.poll", NoParams, "throws"),
     Entry("session.terminate", NoParams, "inside")}

dispatch ==
    WindowMethods \cup DesiredStateMethods \cup InputMethods \cup ScreenMethods
        \cup ProcessMethods \cup SystemMethods \cup MemoryMethods
        \cup RegistryMethods \cup DaemonMethods \cup SessionMethods

(* get_str, get_num, get_bool and parse_hwnd. *)
KindOk(want, given) == given = want \/ (want = "str" /\ given = "handle")

(* A handler that is given what it insists on.  getTree, whose handle is   *)
(* optional, still refuses a string that is none.                          *)
ParamsOk(e, params) ==
    /\ \A p \in e.required :
          \E q \in params : q.name = p.name /\ KindOk(p.kind, q.kind)
    /\ e.method = "window.getTree" => Param("hwnd", "str") \notin params

(* An answer of the core.  stage is how far the request came; id tells     *)
(* whether the answer carries the request's id: a handler returns an       *)
(* answer of its own, and only that of events.poll fills it in.            *)
CoreResponse(code, stage, id) == [code |-> code, stage |-> stage, id |-> id]

(* What the handler e answers, when the backend call succeeds or not. *)
Handled(e, params, succeeds) ==
    IF ~ParamsOk(e, params)
    THEN CoreResponse("E_BAD_REQUEST", "params", TRUE)
    ELSE IF succeeds \/ e.failure = "inside"
    THEN CoreResponse("ok", "backend", e.method = "events.poll")
    ELSE IF e.failure = "throws"
    THEN CoreResponse("E_BAD_REQUEST", "backend", TRUE)
    ELSE CoreResponse(e.failure, "backend", FALSE)

(* CoreEngine::handle *)
handle(m, params, succeeds) ==
    IF \E e \in dispatch : e.method = m
    THEN Handled(CHOOSE e \in dispatch : e.method = m, params, succeeds)
    ELSE CoreResponse("E_BAD_METHOD", "method", TRUE)
=============================================================================
