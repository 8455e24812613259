----------------------------- MODULE MCDisplay -----------------------------
EXTENDS Display

\* The three layouts of the ANSI interface.
MCLayouts == <<LayoutStandard, LayoutCharts, LayoutCompact>>
=============================================================================
