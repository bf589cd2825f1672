--------------------------- MODULE ClientCommands ---------------------------
(***************************************************************************)
(* The commands of the command-line clients: wininspect (cli.cpp) and      *)
(* wi-portable (main.go).  A command turns its arguments, in order, into   *)
(* named parameters of one request.  An argument is abstracted to whether  *)
(* it is what its place calls for (a number, a window handle).             *)
(***************************************************************************)
EXTENDS CoreDispatch, Sequences

(* least is the number of arguments below which the client prints its      *)
(* usage; places are the parameters the arguments go to.                   *)
Command(name, method, least, places) ==
    [name |-> name, method |-> method, least |-> least, places |-> places]

Plain(name, method) == Command(name, method, 0, <<>>)

Num(name) == Param(name, "num")

Str(name) == Param(name, "str")

Bool(name) == Param(name, "bool")

(* The window travels under a name the daemon does not know. *)
HwndPlaceSlip == Param("window", "handle")

HwndPlace == Param("hwnd", "handle")

CliWindowCommands ==
    {Plain("capture", "snapshot.capture"),
     Plain("top", "window.listTop"),
     Command("info", "window.getInfo", 1, <<HwndPlace>>),
     Command("children", "window.listChildren", 1, <<HwndPlace>>),
     Command("tree", "window.getTree", 0, <<HwndPlace>>),
     Command("highlight", "window.highlight", 1, <<HwndPlace>>),
     Command("pick", "window.pickAtPoint", 2, <<Num("x"), Num("y")>>),
     Command("set-prop", "window.setProperty", 3,
         <<HwndPlace, Str("name"), Str("value")>>)}

CliInputCommands ==
    {Command("control-click", "window.controlClick", 3,
         <<HwndPlace, Num("x"), Num("y"), Num("button")>>),
     Command("control-send", "window.controlSend", 2, <<HwndPlace, Str("text")>>),
     Command("get-pixel", "screen.getPixel", 2, <<Num("x"), Num("y")>>),
     Command("pixel-search", "screen.pixelSearch", 7,
         <<Num("left"), Num("top"), Num("right"), Num("bottom"),
           Num("r"), Num("g"), Num("b"), Num("variation")>>)}

CliSystemCommands ==
    {Plain("ps", "process.list"),
     Command("kill", "process.kill", 1, <<Num("pid")>>),
     Command("file-info", "file.getInfo", 1, <<Str("path")>>),
     Command("file-read", "file.read", 1, <<Str("path")>>),
     Command("find-regex", "window.findRegex", 0,
         <<Str("title_regex"), Str("class_regex")>>),
     Command("reg-read", "reg.read", 1, <<Str("path")>>),
     Command("reg-write", "reg.write", 4,
         <<Str("path"), Str("name"), Str("type"), Str("data")>>),
     Command("reg-delete", "reg.delete", 1, <<Str("path"), Str("name")>>),
     Plain("clip-read", "clipboard.read"),
     Command("clip-write", "clipboard.write", 1, <<Str("text")>>),
     Plain("svc-list", "service.list"),
     Command("svc-status", "service.status", 1, <<Str("name")>>),
     Command("svc-control", "service.control", 2, <<Str("name"), Str("action")>>),
     Plain("env-get", "env.get"),
     Command("env-set", "env.set", 2, <<Str("name"), Str("value")>>),
     Plain("wine-drives", "wine.drives"),
     Plain("wine-overrides", "wine.overrides")}

CliProcessCommands ==
    {Command("mutex-check", "sync.checkMutex", 1, <<Str("name")>>),
     Command("mutex-create", "sync.createMutex", 1, <<Str("name"), Bool("own")>>),
     Command("mem-read", "mem.read", 3, <<Num("pid"), Num("address"), Num("size")>>),
     Command("mem-write", "mem.write", 3,
         <<Num("pid"), Num("address"), Str("data_b64")>>),
     Command("image-match", "image.match", 5,
         <<Num("left"), Num("top"), Num("right"), Num("bottom"), Str("sub_image_b64")>>),
     Command("input-hook", "input.hook", 1, <<Bool("enabled")>>)}

CliEventCommands ==
    {Command("events-poll", "events.poll", 1,
         <<Str("snapshot_id"), Str("old_snapshot_id")>>),
     Plain("events-subscribe", "events.subscribe"),
     Plain("events-unsubscribe", "events.unsubscribe"),
     Plain("watch", "events.poll"),
     Plain("status", "daemon.status")}

CliActionCommands ==
    {Command("ensure-visible", "window.ensureVisible", 2,
         <<HwndPlace, Bool("visible")>>),
     Command("ensure-foreground", "window.ensureForeground", 1, <<HwndPlace>>),
     Command("post-message", "window.postMessage", 2,
         <<HwndPlace, Num("msg"), Num("wparam"), Num("lparam")>>),
     Command("send-input", "input.send", 1, <<Str("data_b64")>>),
     Command("ui-inspect", "ui.inspect", 1, <<HwndPlace>>),
     Command("ui-invoke", "ui.invoke", 2, <<HwndPlace, Str("automation_id")>>),
     Plain("health", "daemon.health"),
     Plain("capabilities", "daemon.capabilities"),
     Plain("check-update", "daemon.checkUpdate"),
     Plain("update", "daemon.downloadUpdate")}

CliCommands ==
    CliWindowCommands \cup CliInputCommands \cup CliSystemCommands
        \cup CliProcessCommands \cup CliEventCommands \cup CliActionCommands

(* The first n arguments as parameters; what is more is not looked at.  An *)
(* argument that should be a handle and is not is sent all the same,       *)
(* except by tree, which skips it.                                         *)
CliParams(c, n, wellFormed) ==
    LET kept == {i \in DOMAIN c.places : i <= n /\ ~(c.name = "tree" /\ ~wellFormed)}
    IN  {IF c.places[i].kind = "handle" /\ ~wellFormed
         THEN Str(c.places[i].name) ELSE c.places[i] : i \in kept}

(* stod and stoull throw on text that is no number; nothing catches it. *)
CliCrashes(c, n, wellFormed) ==
    ~wellFormed /\ \E i \in DOMAIN c.places : i <= n /\ c.places[i].kind = "num"

(* reqMethod: the commands the portable client knows. *)
PortableCommands ==
    {"capture", "top", "info", "children", "tree", "pick", "status", "health",
     "highlight", "set-prop", "control-click", "control-send", "get-pixel",
     "pixel-search", "capture-region", "ps", "kill", "file-info", "file-read",
     "find-regex", "reg-read", "reg-write", "reg-delete", "clip-read",
     "clip-write", "svc-list", "svc-status", "svc-control", "env-get",
     "env-set", "wine-drives", "wine-overrides", "mutex-check",
     "mutex-create", "mem-read", "mem-write"}

(* The switch that maps the arguments: how many a command insists on. *)
PortableLeast(cmd) ==
    CASE cmd \in {"pick", "get-pixel", "control-send"} -> 2
      [] cmd \in {"set-prop", "control-click"} -> 3
      [] cmd \in {"reg-read", "file-info", "file-read", "svc-status",
                  "mutex-check", "mutex-create"} -> 1
      [] cmd = "reg-write" -> 4
      [] OTHER -> 0
=============================================================================
