------------------------------- MODULE MCGui -------------------------------
\* Two vehicles, the second of which supports one PID only.
EXTENDS Gui

MCSupports == <<{1, 2}, {2}>>

\* The vehicle info with each of the others; alone also over both connections.
MCSittings ==
  {{"disconnect", "poll", "discover"}, {"disconnect", "read", "clear"},
   {"disconnect", "panel", "discover"}, {"disconnect", "info"},
   {"poll", "info"}, {"read", "info"}}

============================================================================
