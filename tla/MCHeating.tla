----------------------------- MODULE MCHeating -----------------------------
(* Small instances of Heating. *)
EXTENDS Heating

CONSTANTS p1, p2, s1, s2

\* A scene: requests, codes, files and rooms, and the three bounds.
Scene(r, k, f, m, changing, restarting, failing) ==
  [requests |-> r, codes |-> k, files |-> f, rooms |-> m,
   changes |-> changing, restarts |-> restarting, faults |-> failing]

\* Thermostat settings in half degrees: the default, and a warmer one.
Warm == {20, 40}

Plain == {<<>>}
WithQuestion == {<<>>, <<"?">>}

\* Temperatures for a setting of 10 degrees: below, within and above the
\* hysteresis; and what a broken sensor reports.
Around == {18, 20, 50}
BrokenSensor == {-254, 22}

\* Two messages; two settings, with and without a file at start; a message
\* with a question beside a setting; a message and a restart; a setting, a
\* restart and a failure; the temperature, with both, and with a broken sensor.
PassScenes ==
  {Scene({p1, p2}, Plain, {20}, {16}, 0, 0, 0),
   Scene({s1, s2}, Plain, {20, NoFile}, {16}, 0, 0, 0),
   Scene({p1, s1}, WithQuestion, {20}, {50}, 0, 0, 0),
   Scene({p1}, Plain, {20}, {16}, 0, 1, 0),
   Scene({s1}, Plain, {NoFile}, {16}, 0, 1, 1),
   Scene({}, Plain, {20}, Around, 1, 1, 1),
   Scene({}, Plain, {NoFile}, BrokenSensor, 1, 0, 0)}

TwoMessages == {Scene({p1, p2}, Plain, {20}, {16}, 0, 0, 0)}

\* The rest of an answer that was cut off: its fraction, or no digit at all.
Rests == {NoNumber, 1}
=============================================================================
