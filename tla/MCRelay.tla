------------------------------ MODULE MCRelay ------------------------------
(***************************************************************************)
(* A client that sends three chunks or four, for two Remotes in a row, and *)
(* small requests for the header's parser.                                 *)
(***************************************************************************)
EXTENDS Relay, HttpHeader, TLC

h == <<"h", "o", "s", "t", ":">>

MCRequests ==
  80 :> {<<"g", "e", "t", " ", "/">>, <<"g", "e", "t", " ">> \o h \o <<"8", "/">>}
  @@ 443 :> {<<"c", "o", "n", "n", "e", "c", "t", " ">> \o h \o <<"4", "4", "3">>}

MCHostLines ==
  <<"a">> :> {h \o <<" ", "a">>, h \o <<" ", "a", ":", "8">>}
  @@ <<"h", "o">> :> {h \o <<" ", "h", "o">>}

MCFields ==
  {<<>>, <<"c", "o", "n", "n", "e", "c", "t", "i", "o", "n", ":", " ", "x">>,
   <<"h", "o", "p", ":", " ", "?">>}

MCBodies == {<<>>, <<"b">>, <<"b", "\r", "\n">>, <<"\r", "\n", "\r", "\n">>}

(* What Relay takes as given once the header is whole: that there is a     *)
(* blank line, the host to connect to, the port, and which part of the     *)
(* chunks the Remote is to write.                                          *)
WholeHeaderIsRead == headerKind = "whole" => FindsBlankLine /\ ParsesRequest
=============================================================================
