----------------------------- MODULE MCHelpers ------------------------------
(***************************************************************************)
(* The parts the daemon's handlers call that have no thread of their own:  *)
(* parsers as functions from an argument to a result, the base64 and       *)
(* string codecs as loops, the walks over windows and elements call by     *)
(* call, the logger and the update download as state that threads share.   *)
(***************************************************************************)
EXTENDS Base64, TinyJson, VersionTags, LogBuffer, UiTree, FiniteSets, TLC

VARIABLES
    task,   \* what is called, with its argument
    result  \* what it returned, or NoResult

NoResult == [returned |-> FALSE]
Returns(value) == [returned |-> TRUE, is |-> value]

codecs == <<base64, jsonString>>

helperVars == <<task, result, downloads, logs, codecs, uiTree>>

(* Sequences over S of at most n elements. *)
UpTo(S, n) == UNION {[1 .. k -> S] : k \in 0 .. n}

Byte == {0, 1, 3, 15, 77, 128, 252, 255}
MCByteStrings == UpTo(Byte, 3) \cup UpTo({77, 255}, 7)

(* A byte of each kind that dump_string tells apart. *)
CharByte == {1, 9, 31, 34, 47, 92, 97, 117, 195}
MCJsonStrings == UpTo(CharByte, 3) \cup {<<c>> : c \in 0 .. 255}

(* Texts over { " \ , : [ ] 0 - . n u } and some longer ones. *)
JsonByte == {Quote, Backslash, Comma, 91, 93, 48, 49}
Str(inner) == <<Quote>> \o inner \o <<Quote>>
Escaped == {<<Backslash, e>> : e \in {34, 92, 47, 98, 102, 110, 114, 116, 117, 120}}
              \cup {<<Backslash, 117, 48, a, b, 70>> : a \in {48, 55, 57}, b \in {49, 65, 103}}
              \cup {<<c>> : c \in {1, 9, 32, 47, 92, 97, 195}}
Strings == {Str(a \o b) : a \in Escaped \cup {<<>>}, b \in Escaped \cup {<<>>}}
Wholes == {<<>>, <<48>>, <<49>>, <<49, 48, 57>>, <<48, 49>>}
Fracs == {<<>>, <<Dot>>, <<Dot, 48>>, <<Dot, 53>>, <<Dot, 48, 48, 55>>, <<Dot, 53, 48>>}
Exponents == {<<>>, <<101>>, <<69, Minus>>, <<101, 51>>, <<101, Plus, 48, 50>>,
              <<69, Minus, 54>>, <<101, 52, 48, 48>>, <<101, Minus, 52, 48, 48>>}
(* Up to nine decimals, on either side of a half of the sixth. *)
Fine == {<<Dot>> \o z \o d : z \in {Zeros(6), [i \in 1 .. 6 |-> 57]},
            d \in {<<49>>, <<53>>, <<54>>, <<52, 57>>, <<53, 48, 49>>}}
          \cup {<<101, Minus, 55>>}
Numerals == {m \o w \o f \o x : m \in {<<>>, <<Minus>>}, w \in Wholes,
                f \in Fracs, x \in Exponents}
              \cup {m \o w \o f : m \in {<<>>, <<Minus>>}, w \in Wholes, f \in Fine}
Words == {TrueText, FalseText, NullText, <<116, 114>>, <<102>>, <<110, 117>>, <<>>}
Scalars == {Str(<<97>>), Str(<<>>), <<Minus, 48>>, TrueText, <<32, 49>>, <<93>>}
Keys == {Str(<<97>>), Str(<<98>>), Str(<<97, 97>>), <<32>> \o Str(<<98>>) \o <<32>>}
Member(k, v) == k \o <<Colon>> \o v
Objects == {<<123>> \o Member(k, v) \o <<Comma>> \o Member(l, w) \o <<125>> :
               k, l \in Keys, v, w \in Scalars}
             \cup {<<123>> \o Member(k, v) \o end : k \in Keys, v \in Scalars,
                      end \in {<<125>>, <<>>, <<Comma>>, <<125, 32>>, <<125, 49>>}}
             \cup {<<123, 125>>, <<123, 49, 125>>, <<123>> \o Str(<<97>>) \o <<Comma, 49, 125>>,
                   <<123>> \o Str(<<97>>) \o <<Colon, 123, 125, 125>>}
ParseTasks == {[fn |-> "parse", arg |-> t] :
                  t \in UpTo(JsonByte, 5) \cup Strings \cup Numerals \cup Words \cup Objects}

(* Tags over { v . 0 1 2 - r }. *)
Parts == {<<48>>, <<49>>, <<50>>, <<49, 48>>, <<49, 45, 114>>, <<45, 49>>, <<>>, <<114>>}
DotParts == {<<Period>> \o p : p \in Parts}
Tags == {v \o p \o q \o r : v \in {<<>>, <<118>>}, p \in Parts,
            q \in DotParts \cup {<<>>}, r \in {<<>>, <<Period, 48>>, <<Period, 49>>}}
Current == {<<49, Period, 49>>, <<49, Period, 49, Period, 48>>, <<49>>, <<48, Period, 49, 48>>,
            <<118, 49, Period, 48, Period, 49>>, <<114>>}
CompareTasks == {[fn |-> "update", arg |-> <<c, t>>] : c \in Current, t \in Tags}

(* Every forest of four nodes: a node's number says only that its parent's *)
(* is smaller, since children come in any order.                           *)
MCNodes == 1 .. 4
MCForests ==
    {f \in [parent : {p \in [MCNodes -> 0 .. 3] : \A n \in MCNodes : p[n] < n},
            levels : {l \in [MCNodes -> 0 .. 3] : \A n \in MCNodes : l[n] < n}] :
        IsForest(f)}

(* Nobody asks for a tree. *)
NoWalk ==
    /\ parent = <<>> /\ levels = <<>> /\ call = [fn |-> "none"]
    /\ at = Root /\ depth = 0 /\ stack = {} /\ todo = <<>>
    /\ skipped = {} /\ visited = {} /\ times = <<>> /\ found = FALSE

Calls == ParseTasks \cup CompareTasks

Machines == {"base64", "string", "walk", "download", "log"}

HelpersInit ==
    /\ task \in Calls \cup {[fn |-> fn, arg |-> <<>>] : fn \in Machines}
    /\ result = NoResult
    /\ DownloadInit
    /\ LogInit
    /\ bytes \in (IF task.fn = "base64" THEN ByteStrings ELSE {<<>>}) /\ Base64Init
    /\ str \in (IF task.fn = "string" THEN JsonStrings ELSE {<<>>}) /\ JsonStringInit
    /\ IF task.fn = "walk" THEN UiTreeInit ELSE NoWalk
    /\ task.fn # "log" => min_level = 0

(* One call; the caller takes the result. *)
Call(fn, value) ==
    /\ task.fn = fn
    /\ result' = IF result.returned THEN NoResult ELSE Returns(value)
    /\ UNCHANGED <<task, downloads, logs, codecs, uiTree>>

Parse == Call("parse", parse(task.arg))
CheckUpdate == Call("update", update_available(task.arg[1], task.arg[2]))

(* Threads of the daemon that download, threads that log, the codecs and   *)
(* the walks; they have nothing in common and are looked at one after the  *)
(* other.                                                                  *)
Download ==
    /\ task.fn = "download" /\ DownloadNext
    /\ UNCHANGED <<task, result, logs, codecs, uiTree>>
Log ==
    /\ task.fn = "log" /\ LogNext
    /\ UNCHANGED <<task, result, downloads, codecs, uiTree>>
Code ==
    /\ task.fn = "base64" /\ Base64Next
    /\ UNCHANGED <<task, result, downloads, logs, jsonString, uiTree>>
Quoting ==
    /\ task.fn = "string" /\ JsonStringNext
    /\ UNCHANGED <<task, result, downloads, logs, base64, uiTree>>
Walk ==
    /\ task.fn = "walk" /\ UiTreeNext
    /\ UNCHANGED <<task, result, downloads, logs, codecs>>

(* Nothing is left to do once the calls have returned. *)
AllReturned == bpc = "done" \/ jpc = "end" \/ at = Finished
Rest == AllReturned /\ UNCHANGED helperVars

HelpersNext ==
    \/ Parse \/ CheckUpdate
    \/ Download \/ Log \/ Code \/ Quoting \/ Walk \/ Rest

HelpersSpec == HelpersInit /\ [][HelpersNext]_helperVars

Returned(fn) == task.fn = fn /\ result.returned

(* The whole part of a number, and its decimals as billionths. *)
Ones(v) == Value10(v.whole)
Billionths(v) == Value10(SubSeq(v.frac \o Zeros(9), 1, 9))

(* Two numbers that differ by no more than half of the sixth decimal. *)
Near(v, w) ==
    /\ v.neg = w.neg
    /\ Ones(w) - Ones(v) \in -1 .. 1
    /\ (Ones(w) - Ones(v)) * 10^9 + Billionths(w) - Billionths(v) \in -500 .. 500

RECURSIVE Same(_, _)
Same(v, w) ==
    /\ v.type = w.type
    /\ CASE v.type = "num" -> Near(v, w)
         [] v.type = "arr" -> /\ Len(v.items) = Len(w.items)
                              /\ \A i \in DOMAIN v.items : Same(v.items[i], w.items[i])
         [] v.type = "obj" -> /\ DOMAIN v.members = DOMAIN w.members
                              /\ \A k \in DOMAIN v.members : Same(v.members[k], w.members[k])
         [] OTHER -> v = w

(* A value that came in as JSON goes out as JSON that the parser accepts   *)
(* and reads as the same value, but for what std::to_string rounds away:   *)
(* a number comes back to the nearest sixth decimal, 1e-7 as 0.  What was  *)
(* written once is written the same again, so the text is canonical.       *)
JsonRoundTrip ==
    Returned("parse") /\ result.is.ok =>
        \A up \in BOOLEAN :
            LET text == dumps(result.is.v, up)
                again == parse(text)
            IN  /\ again.ok /\ Same(result.is.v, again.v)
                /\ \A other \in BOOLEAN : dumps(again.v, other) = text

(* checkUpdate offers a release exactly when both tags are versions and    *)
(* the release's is greater, a part that is missing being zero.            *)
UpdateOffered ==
    Returned("update") =>
        LET cur == parse_version(task.arg[1])
            lat == parse_version(task.arg[2])
        IN  result.is = (cur # <<>> /\ lat # <<>> /\ Before(cur, lat))
=============================================================================
