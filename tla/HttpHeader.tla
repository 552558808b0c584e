----------------------------- MODULE HttpHeader -----------------------------
(***************************************************************************)
(* How HttpProxy::received (main.cpp) reads a request's header: where it   *)
(* ends, which host and port it names and what the Remote is to write.     *)
(* Relay takes the outcome as given.                                       *)
(*                                                                         *)
(* A text is a sequence of characters, small letters as tolower has them;  *)
(* positions count from 1.                                                 *)
(***************************************************************************)
EXTENDS Integers, Sequences, SequencesExt

CONSTANTS
  Requests,    \* request lines, by the port they are for: 80 or 443
  HostLines,   \* host lines, by the host they name
  Fields,      \* other lines, the empty one to stand for none
  Bodies,      \* what follows the blank line in the same read
  MaxText      \* bound: the length of the texts searched for a blank line

ASSUME HeaderAssumption == MaxText \in Nat

CR == "\r"
LF == "\n"
HostPattern == <<"h", "o", "s", "t", ":", "?">>
ConnectPattern == <<"c", "o", "n", "n", "e", "c", "t", " ">>
BlankLinePattern == <<CR, LF, CR, LF>>

(* findFirstPattern: second is the last character of the match.  The       *)
(* character that breaks a match begun is not tried as the first of the    *)
(* next.  (first, which is one too low then, is only compared.)            *)
MatchNext(text, pattern, s, pos) ==
  IF s.matchPos = Len(pattern) THEN s
  ELSE [matchPos |-> IF pattern[s.matchPos + 1] \in {text[pos], "?"}
                     THEN s.matchPos + 1 ELSE 0,
        second |-> pos]

FindFirstPattern(text, pattern) ==
  LET upTo[pos \in 0 .. Len(text)] ==
        IF pos = 0 THEN [matchPos |-> 0, second |-> 0]
        ELSE MatchNext(text, pattern, upTo[pos - 1], pos)
      last == upTo[Len(text)]
  IN  [found |-> last.matchPos = Len(pattern), second |-> last.second]

(* A host line's host: what follows the character after the colon, up to   *)
(* a port; <<>> for any other line.                                        *)
HostOfLine(line) ==
  LET it == FindFirstPattern(line, HostPattern)
      host == SubSeq(line, it.second + 1, Len(line))
      delim == SelectInSeq(host, LAMBDA c : c = ":")
  IN  IF ~it.found THEN <<>>
      ELSE <<IF delim = 0 THEN host ELSE SubSeq(host, 1, delim - 1)>>

FirstHost(host, later) == IF host # <<>> THEN host ELSE later    \* mutant

(* A later host line overrides an earlier one.                             *)
LastHost(host, later) == IF later # <<>> THEN later ELSE host

(* The loop over the lines, body and all.  It skips line feeds without a   *)
(* look at the end of the header: past it the byte read is undefined, and  *)
(* taken here not to be a line feed.                                       *)
Host(text) ==
  LET scan[start \in Nat] ==
        LET cr == SelectInSubSeq(text, start, Len(text), LAMBDA c : c = CR) IN
        IF start > Len(text) THEN <<>>
        ELSE IF text[start] = LF THEN scan[start + 1]
        ELSE IF cr = 0 THEN <<>>
        ELSE LastHost(HostOfLine(SubSeq(text, start, cr - 1)), scan[cr + 1])
  IN  scan[1]

(* What received makes of a header that has come whole.                    *)
Parse(text) ==
  LET doubleCr == FindFirstPattern(text, BlankLinePattern)
      connects == FindFirstPattern(text, ConnectPattern).found
  IN  [complete |-> doubleCr.found,
       host |-> FlattenSeq(Host(text)),    \* "" if there is none
       port |-> IF connects THEN 443 ELSE 80,
       initWrite |-> IF connects THEN SubSeq(text, doubleCr.second + 1, Len(text))
                     ELSE text]
-----------------------------------------------------------------------------
ProperLineEnds(text) ==
  \A i \in DOMAIN text : text[i] = CR => i < Len(text) /\ text[i + 1] = LF

(* findFirstPattern finds a blank line only where there is one, and the    *)
(* first one if every CR comes before an LF, although it gives the         *)
(* character that breaks a match no second chance.                         *)
FindsBlankLine ==
  \A n \in 0 .. MaxText : \A text \in [1 .. n -> {CR, LF, "a"}] :
    LET it == FindFirstPattern(text, BlankLinePattern)
        ends == {e \in 4 .. n : SubSeq(text, e - 3, e) = BlankLinePattern}
    IN  /\ it.found => it.second \in ends
        /\ ProperLineEnds(text) /\ ends # {} => it.found /\ it.second = Min(ends)

Line(text) == IF text = <<>> THEN <<>> ELSE text \o <<CR, LF>>

(* Of a request with a host line, wherever it stands among the others and  *)
(* whatever the request line holds, received takes that host without its   *)
(* port; for CONNECT it takes port 443 and keeps for the Remote what comes *)
(* after the blank line, for others port 80 and keeps all of it.           *)
ParsesRequest ==
  \A port \in DOMAIN Requests : \A request \in Requests[port] :
  \A host \in DOMAIN HostLines : \A hostLine \in HostLines[host] :
  \A before, after \in Fields : \A body \in Bodies :
    LET text == Line(request) \o Line(before) \o Line(hostLine) \o Line(after)
                \o <<CR, LF>> \o body
    IN  Parse(text) = [complete |-> TRUE, host |-> host, port |-> port,
                       initWrite |-> IF port = 443 THEN body ELSE text]
=============================================================================
