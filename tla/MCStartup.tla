------------------------------- MODULE MCStartup -------------------------------
(***************************************************************************)
(* Model-checking instance of Startup: four host names, two of one address  *)
(* and one unknown; option lines around every limit; a command line without *)
(* options, two that take the place of what the file says, one with too     *)
(* long a pause and one that is refused.                                   *)
(***************************************************************************)
EXTENDS Startup

MCHosts == {"router", "gateway", "server-one", "nobody"}

MCHostLength == [h \in MCHosts |->
  CASE h = "router" -> 6 [] h = "gateway" -> 7 [] h = "server-one" -> 10 [] h = "nobody" -> 6]

\* The router and the gateway are one machine.
MCAddress == [h \in MCHosts |->
  CASE h \in {"router", "gateway"} -> "10.0.0.1" [] h = "server-one" -> "10.0.0.2"
    [] h = "nobody" -> Unresolved]

MCFileOptions ==
  {<<"t", 0>>, <<"m", 15>>, <<"m", 16>>, <<"m", 19>>, <<"s", 5>>, <<"s", 6>>,
   <<"p", 36538>>, <<"p", 38000>>, <<"z", 0>>}

MCCommandLines ==
  {{}, {<<"m", 17>>, <<"s", 1>>, <<"N", 1>>}, {<<"p", 1000>>, <<"o", 1>>, <<"a", 0>>},
   {<<"p", 475000>>}, {<<"m", 20>>}}

===============================================================================
