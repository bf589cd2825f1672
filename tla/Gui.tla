-------------------------------- MODULE Gui ---------------------------------
(***************************************************************************)
(* The GUI: ViewModel and the window that shows it.  The windows are       *)
(* listed once, when the GUI starts; the tree control keeps with every     *)
(* item an index into hwnd_storage_, and selecting an item asks the daemon *)
(* about the handle stored there, which may be a window's no more.  A      *)
(* request is a pipe connection of its own and any of them may fail.       *)
(***************************************************************************)
EXTENDS Integers, Sequences, FiniteSets, Functions

CONSTANT Hwnds      \* windows of the desktop

ASSUME HwndsAssumption == IsFiniteSet(Hwnds)

VARIABLES
    gpc,            \* what the GUI thread is doing
    living,         \* windows that exist, followed while the GUI runs
    listing,        \* the capture that refresh lists
    items,          \* the control's items: their handle and their index
    hwnd_storage,   \* WinInspectWindow::hwnd_storage_
    selected,       \* position of the selected item, or 0
    props           \* the window whose properties are shown, or Blank

gui == <<gpc, living, listing, items, hwnd_storage, selected, props>>

Blank == <<>>

GuiInit ==
    /\ gpc = "off"
    /\ living = {}
    /\ listing = <<>> /\ items = <<>> /\ hwnd_storage = <<>>
    /\ selected = 0
    /\ props = Blank

(* WinMain makes the window and its controls. *)
GuiStart ==
    /\ gpc = "off"
    /\ gpc' = "capture"
    /\ living' \in SUBSET Hwnds
    /\ UNCHANGED <<listing, items, hwnd_storage, selected, props>>

(* The process ends: its window was closed, or an exception left it. *)
GuiEnds ==
    /\ gpc' = "off"
    /\ living' = {}
    /\ listing' = <<>> /\ items' = <<>> /\ hwnd_storage' = <<>>
    /\ selected' = 0
    /\ props' = Blank

(* vm_->refresh(), first request. *)
GuiCapture ==
    /\ gpc = "capture"
    /\ listing' \in Bijection(1 .. Cardinality(living), living)
    /\ gpc' = "list"
    /\ UNCHANGED <<living, items, hwnd_storage, selected, props>>

(* Second request, and addNode for every node of the answer. *)
GuiRefreshed ==
    /\ gpc = "list"
    /\ hwnd_storage' = listing
    /\ items' = [i \in DOMAIN listing |-> [hwnd |-> listing[i], param |-> i - 1]]
    /\ gpc' = "ready"
    /\ UNCHANGED <<living, listing, selected, props>>

(* No daemon, an error, or a capture that was evicted before it could be   *)
(* listed: at("result") throws and nothing catches it.                     *)
GuiRefreshThrows == gpc \in {"capture", "list"} /\ GuiEnds

(* onNotify and the capture of select_hwnd. *)
GuiSelect ==
    /\ gpc = "ready"
    /\ \E i \in DOMAIN items :
          /\ items[i].param < Len(hwnd_storage)
          /\ selected' = i
    /\ gpc' = "info"
    /\ UNCHANGED <<living, listing, items, hwnd_storage, props>>

(* Without an answer the properties stay as they are. *)
ClearedSlip == props

(* props_.clear() *)
Cleared == Blank

(* getInfo, and updateProps.  An answer that is not ok leaves no           *)
(* properties: the window is gone, or the daemon refused or is away.       *)
GuiInfo ==
    LET hwnd == hwnd_storage[items[selected].param + 1] IN
    /\ gpc = "info"
    /\ \/ hwnd \in living /\ props' = <<hwnd>>
       \/ props' = Cleared
    /\ gpc' = "ready"
    /\ UNCHANGED <<living, listing, items, hwnd_storage, selected>>

(* The capture had no result, or an answer did not parse. *)
GuiSelectThrows == gpc = "info" /\ GuiEnds

GuiClose == gpc = "ready" /\ GuiEnds

(* Applications create and close windows. *)
WindowsChange ==
    /\ gpc # "off"
    /\ \E h \in Hwnds : living' = (living \ {h}) \cup ({h} \ living)
    /\ UNCHANGED <<gpc, listing, items, hwnd_storage, selected, props>>

GuiNext ==
    \/ GuiStart \/ GuiCapture \/ GuiRefreshed \/ GuiRefreshThrows
    \/ GuiSelect \/ GuiInfo \/ GuiSelectThrows \/ GuiClose \/ WindowsChange

(* The properties shown between two selections are those of the selected   *)
(* item's window, or none: never those of a window selected before, also   *)
(* when windows of the list have gone and requests fail.                   *)
PropsOfSelection ==
    gpc = "ready" /\ props # Blank
        => selected # 0 /\ props = <<items[selected].hwnd>>
=============================================================================
