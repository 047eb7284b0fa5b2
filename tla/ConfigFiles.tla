----------------------------- MODULE ConfigFiles -----------------------------
(***************************************************************************)
(* Updates of a camera's configuration file.  The restful server (PUT,     *)
(* rk_put_method and configs_update) and the CGI program param change      *)
(* parameters one by one with WriteParamStr: it copies the file line by    *)
(* line to a file of the same name and ".new", with the parameter's line   *)
(* replaced, removes the old file, renames the new one and calls sync().   *)
(* The restful server handles one request at a time; a CGI program is a    *)
(* process of its own, and the power of the camera may fail at any time.   *)
(*                                                                         *)
(* A file's content is the sequence of its lines, [name, value]; a file is *)
(* shorter than a stdio buffer, so that it is read at once, and written    *)
(* when it is closed.  After a power failure the file system has the state *)
(* it had at the last sync() or at a later moment.                         *)
(***************************************************************************)
EXTENDS Naturals, Sequences, FiniteSets, SequencesExt

CONSTANTS Writers,     \* the updates that can be under way at once
          Requests,    \* Requests[w]: what w is asked, [by, tokens]
          Initial,     \* the file's lines at first
          Starts,      \* <<name, start>>: the name begins with that start
          BadEscape,   \* a value that unescape refuses
          Inodes,      \* bound: inodes of the two names and of open files
          NoFile       \* a name without a file

\* A request goes to the restful server, for one of its groups, or to param.
Served == {"wifi", "stream", "nabto"}
ByServer(w) == \E req \in Requests[w] : req.by \in Served

ASSUME ConfigAssumption ==
    /\ \A v, w \in Writers : ByServer(v) /\ ByServer(w) => v = w
    /\ NoFile \notin Inodes /\ {1, 2} \subseteq Inodes
    /\ Cardinality(Inodes) >= 2 + 2 * Cardinality(Writers)

Call(name, value) == [name |-> name, value |-> value]

\* The names of the API that configs_update looks for, and their parameters.
ApiNames ==
    [wifi |-> [ap_ssid |-> "AP_SSID", ap_key |-> "AP_AUTH_KEY", ap_ipaddr |-> "AP_IPADDR",
               ap_channel |-> "AP_CHANNEL", sta_ssid |-> "SSID", sta_key |-> "AUTH_KEY"],
     stream |-> [bitrate |-> "BITRATE", vin_width |-> "VINWIDTH", vin_height |-> "VINHEIGHT",
                 jpegenc_width |-> "JPEGENCWIDTH", jpegenc_height |-> "JPEGENCHEIGHT"]]

\* (Faulty: the key is written before the mode.)
KeyFirst(value) == <<Call("AP_AUTH_KEY", value), Call("AP_AUTH_MODE", "WPA2PSK"),
                     Call("AP_ENCRYPT_TYPE", "AES")>>
KeyCalls(value) == <<Call("AP_AUTH_MODE", "WPA2PSK"), Call("AP_ENCRYPT_TYPE", "AES"),
                     Call("AP_AUTH_KEY", value)>>

Known(by, t) == by \in DOMAIN ApiNames => t.name \in DOMAIN ApiNames[by]

\* The updates a token asks for: a name of the API stands for its parameter,
\* and a key for its mode and its encryption as well; nabto and param take the
\* name as it is.
Asks(by, t) ==
    IF by \notin DOMAIN ApiNames \/ ~Known(by, t) THEN <<Call(t.name, t.value)>>
    ELSE IF t.name = "ap_key" THEN KeyCalls(t.value)
    ELSE <<Call(ApiNames[by][t.name], t.value)>>

\* The tokens of all requests, the lines that can be written for them, and
\* the contents of a file with all its lines.
Tokens == UNION {Range(req.tokens) : req \in UNION {Requests[w] : w \in Writers}}
Lines == Range(Initial)
           \cup UNION {Range(Asks(by, t)) : by \in Served \cup {"param"}, t \in Tokens}
Contents == [DOMAIN Initial -> Lines]

ASSUME ContentAssumption ==
    /\ Initial \in Seq(Lines) /\ NoFile \notin Contents
    /\ \A w \in Writers : \A req \in Requests[w] :
          /\ req.by \in Served \cup {"param"} /\ req.tokens \in Seq(Tokens)
          /\ \A i \in DOMAIN req.tokens : req.tokens[i].size \in Nat

VARIABLES dir,      \* the inodes of the names "config" and "new"
          data,     \* data[i]: content of inode i
          disk,     \* the two names' contents, or NoFile, that survive
          at,       \* at[w]: the step of WriteParamStr w is at
          calls,    \* calls[w]: the WriteParamStr calls w has still to make
          verdict,  \* verdict[w]: iRet when all of them succeed
          old,      \* old[w]: the inode w reads
          new,      \* new[w]: the inode w writes
          text,     \* text[w]: what w's stdio buffer holds for it
          asked,    \* asked[w]: history: what w's last request asked for
          found,    \* found[w]: history: the content it found
          answer,   \* answer[w]: the value w answered it, or "none"
          settled,  \* history: the content after the last finished update
          wiped     \* history: an update began when the file was missing

vars == <<dir, data, disk, at, calls, verdict, old, new, text, asked, found,
          answer, settled, wiped>>

Empty == << >>

Names == {"config", "new"}

-----------------------------------------------------------------------------
(***************************************************************************)
(* configs_update: the WriteParamStr calls of a request, token by token.   *)
(* The restful server gives up with -1 at a value it cannot unescape and,  *)
(* in its groups wifi and stream, at a name it does not know; param takes  *)
(* anything.                                                               *)
(*                                                                         *)
(* The server also puts the parameter's name over the name in the request. *)
(* Only AP_AUTH_KEY is longer: its end, byte 11 of a token that begins     *)
(* "ap_key=", falls behind a short key.  strtok_r goes on behind the       *)
(* token, or at its end when it is the last: on that byte the loop ends,   *)
(* before it, it finds the tail of AP_AUTH_KEY, a name it does not know.   *)
(***************************************************************************)
Accepted(by, t) == Known(by, t) /\ (by \in Served => t.value # BadEscape)

KeyEnd == 11
Resumes(req, i) == 7 + req.tokens[i].size + (IF i < Len(req.tokens) THEN 1 ELSE 0)
Overwrites(req, i) == /\ req.by = "wifi" /\ req.tokens[i].name = "ap_key"
                      /\ Resumes(req, i) <= KeyEnd

\* The tokens at which the loop can end before the last.
Stops(req) == {i \in DOMAIN req.tokens :
                  ~Accepted(req.by, req.tokens[i]) \/ Overwrites(req, i)}
Cuts(req) == {i \in DOMAIN req.tokens : /\ Accepted(req.by, req.tokens[i])
                                         /\ Overwrites(req, i) /\ Resumes(req, i) = KeyEnd}

First(S, req) == IF S = {} THEN Len(req.tokens) ELSE Min(S)

\* The updates the first n tokens ask for.
Updates(req, n) == FlattenSeq([i \in 1 .. n |-> Asks(req.by, req.tokens[i])])

CallsOf(req) ==
    LET n == First(Stops(req), req)
    IN  Updates(req, IF n # 0 /\ ~Accepted(req.by, req.tokens[n]) THEN n - 1 ELSE n)

\* (Faulty: a request that is given up is answered like any other.)
AlwaysSuccess(req) == "success"
VerdictOf(req) ==
    IF Stops(req) # {} /\ Min(Stops(req)) \notin Cuts(req) THEN "fail" ELSE "success"

\* A request arrives.  Of what it asks for, history forgets what stands behind
\* a token that cuts the request off.
Begin(w) ==
    /\ at[w] = "idle"
    /\ \E req \in Requests[w] :
          LET cs == CallsOf(req)
          IN  /\ calls' = [calls EXCEPT ![w] = cs]
              /\ asked' = [asked EXCEPT ![w] = Updates(req, First(Cuts(req), req))]
              /\ verdict' = [verdict EXCEPT ![w] = VerdictOf(req)]
              /\ at' = [at EXCEPT ![w] = IF cs = << >> THEN "idle" ELSE "read"]
              /\ answer' = [answer EXCEPT ![w] = IF cs = << >> THEN VerdictOf(req) ELSE "none"]
    /\ found' = [found EXCEPT ![w] = settled]
    /\ UNCHANGED <<dir, data, disk, old, new, text, settled, wiped>>

-----------------------------------------------------------------------------
(***************************************************************************)
(* WriteParamStr.                                                          *)
(***************************************************************************)
\* The order of its steps.
\* (Faulty: the old file is removed before the new one is closed.)
RemoveEarly(step) == CASE step = "copy" -> "remove" [] step = "remove" -> "close"
                       [] step = "close" -> "rename" [] step = "rename" -> "sync"
Then(step) == CASE step = "copy" -> "close" [] step = "close" -> "remove"
                [] step = "remove" -> "rename" [] step = "rename" -> "sync"

Goes(w, step) == at[w] = step /\ at' = [at EXCEPT ![w] = Then(step)]

\* What the two names hold at this moment.
Now == [n \in Names |-> IF dir[n] = NoFile THEN NoFile ELSE data[dir[n]]]

\* fopen(strConfigFilePath, "r")
OpenOld(w) ==
    /\ at[w] = "read" /\ at' = [at EXCEPT ![w] = "write"]
    /\ old' = [old EXCEPT ![w] = dir["config"]]
    /\ UNCHANGED <<dir, data, disk, calls, verdict, new, text, asked, found, answer,
                   settled, wiped>>

\* fopen(strNewConfigFilePath, "w+") truncates the file, or makes one; if the
\* configuration could not be opened the update fails, and no further one of
\* the request is made.
InUse == {dir[n] : n \in Names} \cup {old[w] : w \in Writers} \cup {new[w] : w \in Writers}
FreeInode == CHOOSE i \in Inodes : i \notin InUse

OpenNew(w) ==
    LET i == IF dir["new"] = NoFile THEN FreeInode ELSE dir["new"]
    IN  /\ at[w] = "write"
        /\ dir' = [dir EXCEPT !["new"] = i]
        /\ data' = [data EXCEPT ![i] = Empty]
        /\ IF old[w] = NoFile
           THEN /\ at' = [at EXCEPT ![w] = "idle"]
                /\ answer' = [answer EXCEPT ![w] = "fail"]
                /\ wiped' = TRUE
                /\ UNCHANGED new
           ELSE /\ at' = [at EXCEPT ![w] = "copy"]
                /\ new' = [new EXCEPT ![w] = i]
                /\ UNCHANGED <<answer, wiped>>
        /\ UNCHANGED <<disk, calls, verdict, old, text, asked, found, settled>>

\* It fails, and the other handle stays open.
OpenNewFails(w) ==
    /\ at[w] = "write" /\ at' = [at EXCEPT ![w] = "idle"]
    /\ old' = [old EXCEPT ![w] = NoFile]
    /\ answer' = [answer EXCEPT ![w] = "fail"]
    /\ UNCHANGED <<dir, data, disk, calls, verdict, new, text, asked, found, settled,
                   wiped>>

\* The loop over the lines: every line that begins with the parameter's name
\* is replaced, none if there is no such line.
StartsWith(name, start) == name = start \/ <<name, start>> \in Starts

Replaced(content, c) ==
    [l \in DOMAIN content |-> IF StartsWith(content[l].name, c.name) THEN c ELSE content[l]]

Copy(w) ==
    /\ Goes(w, "copy")
    /\ text' = [text EXCEPT ![w] = Replaced(data[old[w]], Head(calls[w]))]
    /\ UNCHANGED <<dir, data, disk, calls, verdict, old, new, asked, found, answer,
                   settled, wiped>>

\* fclose of both files.
Close(w) ==
    /\ Goes(w, "close")
    /\ data' = [data EXCEPT ![new[w]] = text[w]]
    /\ old' = [old EXCEPT ![w] = NoFile]
    /\ new' = [new EXCEPT ![w] = NoFile]
    /\ text' = [text EXCEPT ![w] = Empty]
    /\ UNCHANGED <<dir, disk, calls, verdict, asked, found, answer, settled, wiped>>

\* remove(strConfigFilePath), whose result is not looked at.
RemoveOld(w) ==
    /\ Goes(w, "remove")
    /\ dir' = [dir EXCEPT !["config"] = NoFile]
    /\ UNCHANGED <<data, disk, calls, verdict, old, new, text, asked, found, answer,
                   settled, wiped>>

\* rename(), whose result is not looked at either.
RenameNew(w) ==
    /\ Goes(w, "rename")
    /\ dir' = IF dir["new"] = NoFile THEN dir
              ELSE [dir EXCEPT !["config"] = dir["new"], !["new"] = NoFile]
    /\ UNCHANGED <<data, disk, calls, verdict, old, new, text, asked, found, answer,
                   settled, wiped>>

\* sync(), and the return to configs_update: the next parameter, or the answer.
\* (Faulty: the file system is not written out.)
NotWritten == disk
Written == Now

Sync(w) ==
    LET rest == Tail(calls[w])
    IN  /\ at[w] = "sync"
        /\ disk' = Written
        /\ calls' = [calls EXCEPT ![w] = rest]
        /\ at' = [at EXCEPT ![w] = IF rest = << >> THEN "idle" ELSE "read"]
        /\ answer' = [answer EXCEPT ![w] = IF rest = << >> THEN verdict[w] ELSE "none"]
        /\ settled' = Now["config"]
        /\ UNCHANGED <<dir, data, verdict, old, new, text, asked, found, wiped>>

-----------------------------------------------------------------------------
\* The kernel writes the file system out in the background.
Writeback ==
    /\ disk' = Now
    /\ UNCHANGED <<dir, data, at, calls, verdict, old, new, text, asked, found, answer,
                   settled, wiped>>

\* The power fails, and the camera starts again with what was written out; a
\* client keeps the answer of a request that was finished.
PowerFails ==
    LET boot == [n \in Names |-> IF disk[n] = NoFile THEN NoFile
                                 ELSE IF n = "config" THEN 1 ELSE 2]
    IN  /\ dir' = boot
        /\ data' = [i \in Inodes |-> CASE i = boot["config"] -> disk["config"]
                                       [] i = boot["new"] -> disk["new"]
                                       [] OTHER -> Empty]
        /\ at' = [w \in Writers |-> "idle"]
        /\ calls' = [w \in Writers |-> << >>]
        /\ old' = [w \in Writers |-> NoFile]
        /\ new' = [w \in Writers |-> NoFile]
        /\ text' = [w \in Writers |-> Empty]
        /\ settled' = IF disk["config"] = NoFile THEN settled ELSE disk["config"]
        /\ UNCHANGED <<disk, verdict, asked, found, answer, wiped>>

-----------------------------------------------------------------------------
Init == /\ dir = [n \in Names |-> IF n = "config" THEN 1 ELSE NoFile]
        /\ data = [i \in Inodes |-> IF i = 1 THEN Initial ELSE Empty]
        /\ disk = [n \in Names |-> IF n = "config" THEN Initial ELSE NoFile]
        /\ at = [w \in Writers |-> "idle"]
        /\ calls = [w \in Writers |-> << >>]
        /\ verdict = [w \in Writers |-> "fail"]
        /\ old = [w \in Writers |-> NoFile]
        /\ new = [w \in Writers |-> NoFile]
        /\ text = [w \in Writers |-> Empty]
        /\ asked = [w \in Writers |-> << >>]
        /\ found = [w \in Writers |-> Initial]
        /\ answer = [w \in Writers |-> "none"]
        /\ settled = Initial
        /\ wiped = FALSE

WriteParamStr(w) == \/ OpenOld(w) \/ OpenNew(w) \/ OpenNewFails(w) \/ Copy(w) \/ Close(w)
                    \/ RemoveOld(w) \/ RenameNew(w) \/ Sync(w)

Next == \/ \E w \in Writers : Begin(w) \/ WriteParamStr(w)
        \/ Writeback \/ PowerFails

Spec == Init /\ [][Next]_vars

-----------------------------------------------------------------------------
Configs == {Now["config"], disk["config"]} \ {NoFile}

\* What the next WriteParamStr of w makes of the settled content.
Coming == {Replaced(settled, calls[w][1]) : w \in {v \in Writers : calls[v] # << >>}}

\* Whoever reads the configuration file, also after a power failure, finds no
\* file or exactly the content before or after one WriteParamStr: never a part
\* of a file, nor two parameters changed at once (WriteParamStr).
ConfigPrecise == Configs \subseteq {settled} \cup Coming

\* One of the two names holds a file with all its lines, now and after a power
\* failure, until an update is begun while the configuration file is missing:
\* its fopen(.., "w+") truncates the last copy (WriteParamStr).
CopySurvives ==
    ~wiped => \A fs \in {Now, disk} :
                 \E n \in Names : fs[n] # NoFile /\ DOMAIN fs[n] = DOMAIN Initial

HasValue(content, name, value) ==
    \A l \in DOMAIN content : content[l].name = name => content[l].value = value

\* A key set through the API is never in the file without the mode and the
\* encryption it is for, also when the power fails between two of the three
\* updates, or the name AP_AUTH_KEY spoils the request (configs_update, Auto
\* Encryption).
KeyNeedsMode ==
    \A c \in Configs : \A l \in DOMAIN c : c[l].name = "AP_AUTH_KEY" /\ c[l] # Initial[l] =>
        HasValue(c, "AP_AUTH_MODE", "WPA2PSK") /\ HasValue(c, "AP_ENCRYPT_TYPE", "AES")

\* The contents a list of updates leads to, one by one.
After(content, cs) ==
    LET after[i \in 0 .. Len(cs)] == IF i = 0 THEN content ELSE Replaced(after[i - 1], cs[i])
    IN  after

\* When a request was answered 0 the file, also after a power failure, is what
\* all the updates it asked for make of the content it found, in their order: no
\* update was given up or lost on the way, nor one more made.  What stands behind
\* a token that cuts the request off is not counted, and an update without a line
\* to replace changes nothing (rk_put_method and param.c).
SuccessMeansDone ==
    \A w \in Writers : answer[w] = "success" /\ asked[w] # << >> =>
        \A fs \in {Now, disk} : fs["config"] = After(found[w], asked[w])[Len(asked[w])]

\* When a request was answered 0 its parameters are in the configuration file
\* with its values, also after a power failure (rk_put_method and param.c).
SuccessMeansStored ==
    \A w \in Writers : answer[w] = "success" =>
        \A i \in DOMAIN asked[w], fs \in {Now, disk} :
            LET c == asked[w][i]
            IN  (\A j \in DOMAIN asked[w] : j > i => ~StartsWith(c.name, asked[w][j].name))
                   => /\ fs["config"] # NoFile
                      /\ \E l \in DOMAIN fs["config"] : fs["config"][l] = c
=============================================================================
