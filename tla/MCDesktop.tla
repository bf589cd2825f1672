----------------------------- MODULE MCDesktop ------------------------------
(***************************************************************************)
(* Instances of Desktop for TLC: what two clients ask for.  A workload     *)
(* holds the requests that touch the same part of the desktop.             *)
(***************************************************************************)
EXTENDS Desktop

(* One window is shown, hidden and brought to the front; two windows       *)
(* compete for the foreground.                                             *)
OneWindow == CHOOSE h \in Hwnds : TRUE

WindowWork == {Visible(OneWindow, on) : on \in BOOLEAN} \cup {Foreground(OneWindow)}

ForegroundWork == {Foreground(h) : h \in Hwnds}

ClipboardWork ==
    {[op |-> "clipboard_write", text |-> x] : x \in {"one", "two"}}
        \cup {[op |-> "clipboard_read"], [op |-> "get_capabilities"]}

RegistryWork ==
    {[op |-> "reg_write", type |-> y] : y \in {"good", "unknown", "no number"}}
        \cup {[op |-> "reg_delete"], [op |-> "get_capabilities"]}

SystemWork ==
    {[op |-> "service_control", start |-> s] : s \in BOOLEAN}
        \cup {[op |-> "sync_create_mutex"], [op |-> "sync_check_mutex"]}

AllWorkloads == {WindowWork, ForegroundWork, ClipboardWork, RegistryWork, SystemWork}
=============================================================================
