------------------------------ MODULE MCCanvas ------------------------------
EXTENDS Canvas

CONSTANTS t1, t2

\* Two browser tabs, alike but for the role Init gives each.
MCTabs == {t1, t2}
=============================================================================
