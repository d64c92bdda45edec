------------------------------ MODULE MCCampaign ------------------------------
\* Model-checking instance of Campaign: two tests, so that the batch of the
\* first can outlive it.
EXTENDS Campaign

TwoTests == 1 .. 2
===============================================================================
