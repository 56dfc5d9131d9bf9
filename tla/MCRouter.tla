------------------------------- MODULE MCRouter -------------------------------
(* The instance of Router that TLC checks: two queries over the same       *)
(* transport, whichever it is, and over different ones.  TCP and DoT share *)
(* their handler but not their semaphore, so one of them is enough beside  *)
(* another transport.                                                      *)
EXTENDS Router

Pairs == {<<"udp", "udp">>, <<"tcp", "tcp">>, <<"dot", "dot">>, <<"doh", "doh">>,
          <<"udp", "tcp">>, <<"udp", "doh">>, <<"doh", "dot">>}
=============================================================================
