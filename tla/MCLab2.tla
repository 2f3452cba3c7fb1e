------------------------------- MODULE MCLab2 -------------------------------
EXTENDS Lab2MRT
=============================================================================
