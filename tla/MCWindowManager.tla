--------------------------- MODULE MCWindowManager ---------------------------
(* An instance of WindowManager for TLC: positions on the three windows the  *)
(* desktop starts with, their buttons, the taskbar, the menu and an icon.    *)
EXTENDS WindowManager

MCSpots == {
  <<648, 170>>,   \* close button of About
  <<630, 170>>,   \* its maximise button
  <<342, 438>>,   \* its bottom left corner
  <<597, 102>>,   \* top right corner of Terminal
  <<994, 10>>,    \* maximise button of a maximised window
  <<500, 8>>,    \* its title
  <<40, 40>>,     \* an icon
  <<150, 750>>,   \* first button of the taskbar
  <<40, 750>>,    \* start button
  <<50, 570>>}    \* first entry of the start menu
MCScrolls == {0, -20}
=============================================================================
