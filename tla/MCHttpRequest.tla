--------------------------- MODULE MCHttpRequest ---------------------------
(* HttpRequest with two controls, one of which counts and has a pwm mode.  *)
EXTENDS HttpRequest

CONSTANTS zero, one, two

MCNumber   == {zero, one, two}
MCControl  == {one, two}
MCCanTable == {<<one, "read">>, <<two, "readcounter">>, <<two, "readpwmmode">>}
=============================================================================
