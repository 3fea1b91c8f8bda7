\* The spec says substitutions must not match by accident; a vendor URL
\* such as http://install-server is rewritten by the "-s" pair.
CONSTANTS
    VendorHosts = {"mirror.local", "10.1.2.3", "install-server", "amd64.mirror", "boots", "tty0"}
SPECIFICATION Spec
INVARIANT URLKept
