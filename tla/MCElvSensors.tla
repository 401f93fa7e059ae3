----------------------------- MODULE MCElvSensors -----------------------------
(* ElvSensors on buses with both Atmels and the light sensor; without the  *)
(* second Atmel; without Atmels and Digipicco, but with sensors whose late *)
(* answers together have its length; and with the thermometers only.       *)
EXTENDS ElvSensors

MCBuses ==
    {{"atmel2", "atmel3", "tsl2550"}, {"atmel2", "tsl2550", "digipicco"},
     {"tsl2550", "tmp275", "ds1621"}, {"ds1731", "tmp275", "ds1621"}}

MCQueries == <<"inputs", "outputs">>
=============================================================================
