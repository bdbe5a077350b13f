-------------------------- MODULE MCVendorInterface --------------------------
EXTENDS VendorInterface

\* The library resets the controller first, and so does the client.
MCFwOpcodes == <<"reset", "patch">>

=============================================================================
